---- MODULE Spec2Model ----
(***************************************************************************)
(* A model of the txtmux session daemon (src/src/txtmux/server.py) and of  *)
(* its session registry (src/src/txtmux/session.py).                       *)
(*                                                                         *)
(* The daemon runs on one asyncio event loop: a task runs without          *)
(* interruption from one `await` to the next.  Every action below is one   *)
(* such uninterrupted stretch of a task: a connection handler              *)
(* (_handle_client / _dispatch_message) or a session's fan-out pump        *)
(* (_pty_forward_loop).  `await writer.drain()` and `await read_pty()` are *)
(* the places where the tasks interleave.                                  *)
(*                                                                         *)
(* `sent[c]` is the sequence of frames written to the writer of            *)
(* connection c.  A frame carries, besides its wire type, the session it   *)
(* is about and what it holds (a replay snapshot or a live chunk, the      *)
(* reply to NEW_SESSION or to ATTACH), so that orderings can be stated.    *)
(*                                                                         *)
(* The specifications share the actions and differ in what runs:           *)
(*   Spec          one session whose shell writes chunks and may exit      *)
(*   SpecTwo       two sessions whose shells write nothing and may exit    *)
(*   SpecStop      SpecTwo, and the daemon may be stopped (stop())         *)
(*   SpecIO        one session; INPUT, RESIZE and frames that raise        *)
(*   SpecSize      one session; clients of three sizes declare and resize  *)
(*   SpecResize    one session whose shell may exit; its clients resize    *)
(*   SpecRegistry  the SessionManager's operations called directly         *)
(*   SpecNames     sessions of any name, and NEW_SESSION without a name    *)
(*   SpecList      two sessions; clients ask for the list of sessions      *)
(*   SpecAgain     one session; attached clients send ATTACH again         *)
(*   SpecFail      two sessions whose shells write; writes to clients fail *)
(*   SpecIdle      one session that is not killed; its clients come and go *)
(*   SpecPaths     a daemon on any socket path is stopped or exits         *)
(*   SpecCodec     the codec (src/src/txtmux/protocol.py) on one message   *)
(*   SpecStream    the codec on a stream of frames read in pieces          *)
(***************************************************************************)
EXTENDS Integers, Sequences, FiniteSets, TLC

\* ------------------------------------------------------------------ bounds

\* Chunks a shell writes to its PTY before it may only exit.
MaxChunks == 2
\* Requests are sent while fewer than MaxReplies frames have answered
\* requests, over all connections.
MaxReplies == 2
\* Bytes of INPUT payload offered to a pane's PTY
MaxInputs == 2
\* LIST_SESSIONS is sent while the frames that answered it, over all
\* connections, stay within MaxListed.
MaxListed == 2
\* Frames a peer writes on one stream
MaxFrames == 2
\* A payload is cut to its first 0 .. MaxCut bytes (the longest payload
\* of the model has 36)
MaxCut == 35

\* The connections of one run, by the ids they are given on accept.
ConnIds == {0, 1}
\* The sessions of one run, by the ids the registry gives them: these are
\* the ids clients name in ATTACH and KILL_SESSION, and NEW_SESSION is sent
\* while they last.  One session under Spec, two under SpecTwo.
OneSession == {0}
TwoSessions == {0, 1}
\* Session names clients ask for ("" asks for the default name).
Names == {"", "w"}
\* Terminal sizes clients declare in IDENTIFY.
Dims == {<<80, 24>>}
\* session ids, pane ids, names and client ids of the runs that call the
\* registry directly
RegSessions == {0, 1, 2}
RegPanes == {0, 1, 2, 3}
RegNames == {"main", "session-1", "session-2", "w"}
RegClients == {0, 1}
\* terminal sizes (width, height) of the runs that resize; one is below
\* MIN_TERMINAL_WIDTH by MIN_TERMINAL_HEIGHT
Sizes == {<<80, 24>>, <<100, 30>>, <<10, 5>>}
\* constants.py: the smallest terminal
MIN_TERMINAL_WIDTH == 20
MIN_TERMINAL_HEIGHT == 10

\* get_socket_path(): the path the environment and the user id give
get_socket_path == "default"
\* get_pid_file_path()
get_pid_file_path == get_socket_path \o ".pid"
\* Socket paths a SessionServer is made with.
SocketPaths == {get_socket_path, "other"}
\* The PID file a daemon on socket path p writes.
PidFile(p) == p \o ".pid"

\* --------------------------------------------------------------- variables

VARIABLES
    sessions,        \* SessionManager._sessions: id -> Session
    sessions_by_name,\* SessionManager._sessions_by_name: name -> session id
    attached_clients,\* SessionManager._attached_clients: id -> set of client ids
    next_session_id, \* SessionManager._next_session_id
    next_pane_id,    \* SessionManager._next_pane_id
    next_client_id,  \* SessionServer._next_client_id
    clients,         \* keys of SessionServer._clients (client id -> writer)
    client_dimensions,\* SessionServer._client_dimensions
    client_sessions, \* SessionServer._client_sessions
    pty_tasks,       \* keys of SessionServer._pty_tasks
    pump,            \* the latest pump task made for a session id
    handler,         \* where each connection's _handle_client task stands
    sent,            \* frames written to each connection's writer, in order
    writers_closed,  \* connections whose writer.close() was called
    serving,         \* SessionServer._server accepts connections
    socket_file,     \* the socket file exists at _socket_path
    shutdown_event,  \* SessionServer._shutdown_event is set
    stop_task,       \* where the task that runs stop() stands
    socket_path,     \* SessionServer._socket_path
    pid_files,       \* the paths at which a PID file exists
    outgoing,        \* messages a peer is about to encode and write
    encoded,         \* messages the peer has written, with the payload sent
    wire,            \* bytes written by the peer and not yet read
    buffer,          \* `buffer` of the read loop that calls decode
    received         \* what the read loop got from decode, in order

vars == <<sessions, sessions_by_name, attached_clients, next_session_id,
          next_pane_id, next_client_id, clients, client_dimensions,
          client_sessions, pty_tasks, pump, handler, sent, writers_closed,
          serving, socket_file, shutdown_event, stop_task, socket_path,
          pid_files, outgoing, encoded, wire, buffer, received>>

\* What the codec is applied to, apart from the daemon's state.
codec == <<outgoing, encoded, wire, buffer, received>>

\* The daemon's state.
endpoint == <<sessions, sessions_by_name, attached_clients, next_session_id,
              next_pane_id, next_client_id, clients, client_dimensions,
              client_sessions, pty_tasks, pump, handler, sent, writers_closed,
              serving, socket_file, shutdown_event, stop_task, socket_path,
              pid_files>>

\* What only start() and stop() change.
daemon == <<serving, socket_file, shutdown_event, stop_task, socket_path,
            pid_files>>

registry == <<sessions, sessions_by_name, attached_clients, next_session_id,
              next_pane_id>>

\* ------------------------------------------------------------ dict helpers

\* d.pop(k, None) / del d[k] of a Python dict held as a function.
Pop(d, k) == [x \in (DOMAIN d) \ {k} |-> d[x]]
\* d[k] = v
Put(d, k, v) == [x \in (DOMAIN d) \cup {k} |-> IF x = k THEN v ELSE d[x]]

Min(S) == CHOOSE x \in S : \A y \in S : x <= y

\* ------------------------------------------------------------------ frames

Frame(t, s, k, n) == [t |-> t, s |-> s, k |-> k, n |-> n]
\* encode_output(data) of the n-th chunk read from session s's PTY
LiveOutput(s, n) == Frame("OUTPUT", s, "live", n)
\* encode_output(pane.render_to_ansi()): the screen after n chunks were fed
SnapshotOutput(s, n) == Frame("OUTPUT", s, "snapshot", n)
\* encode_session_info(session.id, session.name, pane.id, pane.pid,
\* pane.width, pane.height, session.created_at, attached_count) for the
\* session's active pane; k names the request it answers.  The time of
\* creation is the system's and is left out.
SessionInfo(session, k, count) ==
    [t |-> "SESSION_INFO", s |-> session.id, k |-> k, n |-> count,
     name |-> session.name,
     pane_id |-> session.active_pane_id,
     pid |-> session.panes[session.active_pane_id].pid,
     width |-> session.panes[session.active_pane_id].width,
     height |-> session.panes[session.active_pane_id].height]
\* encode_shell_exited(session_id, pane_id); k is "exit" when the pump
\* broadcasts it and "attach" when it answers ATTACH
ShellExited(s, k) == Frame("SHELL_EXITED", s, k, 0)
\* encode_error(message): an ERROR frame is about no session; k is its
\* message and n the session id the message names (0 when it names none)
ErrorFrame(message, n) == Frame("ERROR", -1, message, n)

\* writer.write(frame) on connection c
Write(snt, c, f) == [snt EXCEPT ![c] = Append(@, f)]

\* ---------------------------------------------------------------- registry

\* spawn_shell(shell)[1]: the process id os.fork() returns for the shell of
\* the pane being made.  The system gives every child its own id; the model
\* numbers the children after the panes they are forked for.
spawn_shell(pane_id) == 1000 + pane_id

\* Pane.__init__
Pane(id, width, height) ==
    [id |-> id, pid |-> spawn_shell(id),
     width |-> width, height |-> height, fed |-> 0, is_dead |-> FALSE,
     \* bytes of INPUT payload handed to os.write(pty_fd, ...) by calls
     \* that returned; the bytes are numbered 1, 2, ... as they are offered
     offered |-> 0,
     \* the bytes the PTY accepted, in the order it got them
     written |-> <<>>,
     \* the emulator's screen: pyte.HistoryScreen(height, width)
     screen |-> <<width, height>>,
     \* the PTY's window size: set_pty_size(pty_fd, width, height)
     winsize |-> <<width, height>>]

\* SessionManager.find_session(session_id, None) is not None
find_session(session_id) == session_id \in DOMAIN sessions

\* SessionManager.list_sessions, as the set of (id, name)
list_sessions == {<<s, sessions[s].name>> : s \in DOMAIN sessions}

\* SessionManager.get_attached_clients (a copy of the set)
get_attached_clients(session_id) == attached_clients[session_id]

\* SessionManager.attach_client on the table att
attach_client(att, session_id, client_id) ==
    [att EXCEPT ![session_id] = @ \cup {client_id}]

\* A detach that empties the session's attachment set.
detach_every_client(att, session_id, client_id) ==
    [att EXCEPT ![session_id] = {}]

\* SessionManager.detach_client on the table att
detach_client(att, session_id, client_id) ==
    [att EXCEPT ![session_id] = @ \ {client_id}]

\* The pane the server works on: session.panes[session.active_pane_id]
ActivePane(s) == sessions[s].panes[sessions[s].active_pane_id]

\* "session-<i>"
SessionN(i) ==
    <<"session-1", "session-2", "session-3", "session-4", "session-5",
      "session-6">>[i]

\* A default name that counts the sessions: "session-<len(existing)>".
DefaultNameByCount ==
    IF DOMAIN sessions = {} THEN "main"
    ELSE SessionN(Cardinality(DOMAIN sessions))

\* The name NEW_SESSION gives a session when the client sent none.
DefaultName ==
    IF DOMAIN sessions = {} THEN "main"
    ELSE LET existing_names == {sessions[s].name : s \in DOMAIN sessions}
             i == Min({j \in 1 .. (Cardinality(existing_names) + 1) :
                         SessionN(j) \notin existing_names})
         IN  SessionN(i)

\* ------------------------------------------------------------------- Init

\* {} : an empty dict
EmptyDict == [x \in {} |-> 0]

\* The daemon after start(): no session, no connection.
Started(path, pids) ==
    /\ sessions = EmptyDict
    /\ sessions_by_name = EmptyDict
    /\ attached_clients = EmptyDict
    /\ next_session_id = 0
    /\ next_pane_id = 0
    /\ next_client_id = 0
    /\ clients = {}
    /\ client_dimensions = EmptyDict
    /\ client_sessions = EmptyDict
    /\ pty_tasks = {}
    /\ pump = EmptyDict
    /\ handler = EmptyDict
    /\ sent = EmptyDict
    /\ writers_closed = {}
    /\ serving = TRUE
    /\ socket_file = TRUE
    /\ shutdown_event = FALSE
    /\ stop_task = [pc |-> "idle", cur |-> {}, todo |-> {}, used |-> 0]
    /\ socket_path = path
    /\ pid_files = pids

\* The daemon of `python -m txtmux.server --daemon`: it listens on the
\* socket path of get_socket_path() and daemonize has written its PID file.
InitServer == Started(get_socket_path, {get_pid_file_path})

\* The daemon after start(); nothing goes through the codec.
Init ==
    /\ InitServer
    /\ outgoing = <<>>
    /\ encoded = <<>>
    /\ wire = <<>>
    /\ buffer = <<>>
    /\ received = <<>>

\* ------------------------------------------------------- connection handler

\* The handler of connection c waits in `await reader.read(4096)`.
Idle == [pc |-> "idle", sid |-> 0]
\* ATTACH to session s waits in the `await writer.drain()` after the snapshot.
AttachDrain(s) == [pc |-> "attach_drain", sid |-> s]
\* The `except` branch of _handle_client waits in its `await writer.drain()`.
ErrDrain == [pc |-> "err_drain", sid |-> 0]
\* _handle_client has returned or raised.
Closed == [pc |-> "closed", sid |-> 0]

\* c's handler can take the next message off its buffer.
CanDispatch(c) ==
    /\ c \in DOMAIN handler
    /\ handler[c].pc = "idle"
    /\ c \in clients
    /\ c \notin writers_closed

\* Frames the pump broadcasts (the others answer a request).
PumpKinds == {"live", "exit"}

\* Frames written so far, over all connections, whose kind is in K
\* (among = TRUE) or is not in K (among = FALSE).
Written(K, among) ==
    LET n[S \in SUBSET (DOMAIN sent)] ==
            IF S = {} THEN 0
            ELSE LET c == Min(S)
                 IN  Cardinality({i \in DOMAIN sent[c] :
                                    (sent[c][i].k \in K) = among})
                     + n[S \ {c}]
    IN  n[DOMAIN sent]

\* Frames written so far in answer to LIST_SESSIONS.
Listed == Written({"list"}, TRUE)

\* Frames written so far in answer to the other requests.
Replies == Written(PumpKinds \cup {"list"}, FALSE)

\* The bound on the requests clients send: a request that is answered is
\* sent only while fewer than MaxReplies frames answered requests.
MaySend == Replies < MaxReplies

\* An `except` that writes the ERROR frame to every connection.
RaiseToAll(c, e) ==
    /\ sent' = [d \in DOMAIN sent |-> Append(sent[d], e)]
    /\ handler' = [handler EXCEPT ![c] = ErrDrain]

\* _dispatch_message raised: _handle_client's `except` writes a best-effort
\* ERROR frame and waits for the drain; `finally` runs after it.
Raise(c, e) ==
    /\ sent' = Write(sent, c, e)
    /\ handler' = [handler EXCEPT ![c] = ErrDrain]

\* _handle_client, up to the first read: a connection is accepted.
Accept ==
    /\ UNCHANGED <<daemon, writers_closed, codec>>
    /\ serving
    /\ next_client_id \in ConnIds
    /\ next_client_id' = next_client_id + 1
    /\ clients' = clients \cup {next_client_id}
    /\ handler' = Put(handler, next_client_id, Idle)
    /\ sent' = Put(sent, next_client_id, <<>>)
    /\ UNCHANGED <<registry, client_dimensions, client_sessions, pty_tasks,
                   pump>>

\* IDENTIFY
Identify(c, d) ==
    /\ UNCHANGED <<daemon, writers_closed, codec>>
    /\ CanDispatch(c)
    /\ client_dimensions' = Put(client_dimensions, c, d)
    /\ UNCHANGED <<registry, next_client_id, clients, client_sessions,
                   pty_tasks, pump, handler, sent>>

\* The order of `for session_id, name in sessions`: that of the dict
\* _sessions, which is the order the sessions were made in, and ids are
\* given in rising order.
sessions_in_order ==
    LET l[S \in SUBSET (DOMAIN sessions)] ==
            IF S = {} THEN <<>> ELSE <<Min(S)>> \o l[S \ {Min(S)}]
    IN  l[DOMAIN sessions]

\* LIST_SESSIONS: one SESSION_INFO per session, written in one go, then the
\* drain, after which the handler reads on.
ListSessions(c) ==
    /\ UNCHANGED <<daemon, writers_closed, codec>>
    /\ CanDispatch(c)
    /\ Listed + Cardinality(DOMAIN sessions) <= MaxListed
    /\ sent' = [sent EXCEPT ![c] = @ \o
                   [i \in 1 .. Len(sessions_in_order) |->
                      LET session_id == sessions_in_order[i]
                      IN  SessionInfo(sessions[session_id], "list",
                              Cardinality(get_attached_clients(session_id)))]]
    /\ UNCHANGED <<registry, next_client_id, clients, client_dimensions,
                   client_sessions, pty_tasks, pump, handler>>

\* The pump task waits in `await read_pty(...)`.
Reading == [pc |-> "read", data |-> 0, client_ids |-> {}, todo |-> {}, cur |-> {}]
\* _pty_forward_loop has returned, after _broadcast_shell_exited went over
\* its copy client_ids of the attachment set.
Done(client_ids) ==
    [pc |-> "done", data |-> 0, client_ids |-> client_ids, todo |-> {}, cur |-> {}]
\* _pty_forward_loop raised RuntimeError: no such session.
Failed == [pc |-> "failed", data |-> 0, client_ids |-> {}, todo |-> {}, cur |-> {}]

\* asyncio.create_task(self._pty_forward_loop(session_id, pane_id)) and the
\* task's first stretch, which looks the session up in the registry (`live`
\* are its session ids) and either raises or reaches its first
\* `await read_pty(...)`.  A session that exists when the task is made still
\* exists when the task first runs, unless KILL_SESSION has cancelled the
\* task by then; so the outcome is that of the lookup here.
NewTask(session_id, live) == IF session_id \in live THEN Reading ELSE Failed

\* _start_pty_forwarding: the keys of _pty_tasks afterwards
start_pty_forwarding_keys(session_id) == pty_tasks \cup {session_id}

\* _start_pty_forwarding: the pump tasks afterwards
start_pty_forwarding(session_id, live) ==
    IF session_id \in pty_tasks THEN pump
    ELSE Put(pump, session_id, NewTask(session_id, live))

\* A session whose pane has the width and the height the wrong way round.
NewSessionTurned(name, width, height) ==
    [id |-> next_session_id,
     name |-> name,
     panes |-> Put(EmptyDict, next_pane_id, Pane(next_pane_id, height, width)),
     pane_keys |-> <<next_pane_id>>,
     active_pane_id |-> next_pane_id]

\* SessionManager.create_session: the Session it builds.  pane_keys is the
\* order of the dict `panes`: its keys in the order they were put in.
NewSessionRecord(name, width, height) ==
    [id |-> next_session_id,
     name |-> name,
     panes |-> Put(EmptyDict, next_pane_id, Pane(next_pane_id, width, height)),
     pane_keys |-> <<next_pane_id>>,
     active_pane_id |-> next_pane_id]

\* A NEW_SESSION that takes the ids before create_session checks the name.
NewSessionTakesIds(c, requested, ids) ==
    /\ UNCHANGED <<daemon, writers_closed, codec>>
    /\ CanDispatch(c)
    /\ MaySend
    /\ LET name == IF requested = "" THEN DefaultName ELSE requested
       IN  IF c \notin DOMAIN client_dimensions
             \* RuntimeError("Client must send IDENTIFY before NEW_SESSION")
           THEN /\ Raise(c, ErrorFrame("Client must send IDENTIFY before NEW_SESSION", 0))
                /\ UNCHANGED <<registry, next_client_id, clients,
                               client_dimensions, client_sessions, pty_tasks,
                               pump>>
           ELSE IF name \in DOMAIN sessions_by_name
             \* create_session: ValueError, the name is in use
           THEN /\ Raise(c, ErrorFrame("Session with name already exists", 0))
                /\ next_session_id \in ids
                /\ next_session_id' = next_session_id + 1
                /\ next_pane_id' = next_pane_id + 1
                /\ UNCHANGED <<sessions, sessions_by_name, attached_clients,
                               next_client_id, clients, client_dimensions,
                               client_sessions, pty_tasks, pump>>
           ELSE LET sid == next_session_id
                    d == client_dimensions[c]
                    att == attach_client(Put(attached_clients, sid, {}), sid, c)
                IN  /\ next_session_id \in ids
                    /\ sessions' = Put(sessions, sid,
                                       NewSessionRecord(name, d[1], d[2]))
                    /\ sessions_by_name' = Put(sessions_by_name, name, sid)
                    /\ next_session_id' = next_session_id + 1
                    /\ next_pane_id' = next_pane_id + 1
                    /\ attached_clients' = att
                    /\ client_sessions' = Put(client_sessions, c, sid)
                    /\ pty_tasks' = start_pty_forwarding_keys(sid)
                    /\ pump' = start_pty_forwarding(sid, DOMAIN sessions \cup {sid})
                    /\ sent' = Write(sent, c,
                                     SessionInfo(NewSessionRecord(name, d[1], d[2]),
                                                 "new", Cardinality(att[sid])))
                    /\ UNCHANGED <<next_client_id, clients, client_dimensions,
                                   handler>>

\* A NEW_SESSION that gives a client that sent no IDENTIFY the default size.
NewSessionDefaultSize(c, requested, ids) ==
    /\ UNCHANGED <<daemon, writers_closed, codec>>
    /\ CanDispatch(c)
    /\ MaySend
    /\ LET name == IF requested = "" THEN DefaultName ELSE requested
       IN  IF name \in DOMAIN sessions_by_name
             \* create_session: ValueError, the name is in use
           THEN /\ Raise(c, ErrorFrame("Session with name already exists", 0))
                /\ UNCHANGED <<registry, next_client_id, clients,
                               client_dimensions, client_sessions, pty_tasks,
                               pump>>
           ELSE LET sid == next_session_id
                    d == IF c \in DOMAIN client_dimensions THEN client_dimensions[c]
                         ELSE <<80, 24>>
                    att == attach_client(Put(attached_clients, sid, {}), sid, c)
                IN  /\ next_session_id \in ids
                    /\ sessions' = Put(sessions, sid,
                                       NewSessionRecord(name, d[1], d[2]))
                    /\ sessions_by_name' = Put(sessions_by_name, name, sid)
                    /\ next_session_id' = next_session_id + 1
                    /\ next_pane_id' = next_pane_id + 1
                    /\ attached_clients' = att
                    /\ client_sessions' = Put(client_sessions, c, sid)
                    /\ pty_tasks' = start_pty_forwarding_keys(sid)
                    /\ pump' = start_pty_forwarding(sid, DOMAIN sessions \cup {sid})
                    /\ sent' = Write(sent, c,
                                     SessionInfo(NewSessionRecord(name, d[1], d[2]),
                                                 "new", Cardinality(att[sid])))
                    /\ UNCHANGED <<next_client_id, clients, client_dimensions,
                                   handler>>

\* A NEW_SESSION whose new pump writes to the connection before the reply.
NewSessionPumpFirst(c, requested, ids) ==
    /\ UNCHANGED <<daemon, writers_closed, codec>>
    /\ CanDispatch(c)
    /\ MaySend
    /\ LET name == IF requested = "" THEN DefaultName ELSE requested
       IN  IF c \notin DOMAIN client_dimensions
             \* RuntimeError("Client must send IDENTIFY before NEW_SESSION")
           THEN /\ Raise(c, ErrorFrame("Client must send IDENTIFY before NEW_SESSION", 0))
                /\ UNCHANGED <<registry, next_client_id, clients,
                               client_dimensions, client_sessions, pty_tasks,
                               pump>>
           ELSE IF name \in DOMAIN sessions_by_name
             \* create_session: ValueError, the name is in use
           THEN /\ Raise(c, ErrorFrame("Session with name already exists", 0))
                /\ UNCHANGED <<registry, next_client_id, clients,
                               client_dimensions, client_sessions, pty_tasks,
                               pump>>
           ELSE LET sid == next_session_id
                    d == client_dimensions[c]
                    att == attach_client(Put(attached_clients, sid, {}), sid, c)
                IN  /\ next_session_id \in ids
                    /\ sessions' = Put(sessions, sid,
                                       NewSessionRecord(name, d[1], d[2]))
                    /\ sessions_by_name' = Put(sessions_by_name, name, sid)
                    /\ next_session_id' = next_session_id + 1
                    /\ next_pane_id' = next_pane_id + 1
                    /\ attached_clients' = att
                    /\ client_sessions' = Put(client_sessions, c, sid)
                    /\ pty_tasks' = start_pty_forwarding_keys(sid)
                    /\ pump' = start_pty_forwarding(sid, DOMAIN sessions \cup {sid})
                    /\ sent' = Write(Write(sent, c, LiveOutput(sid, 0)), c,
                                     SessionInfo(NewSessionRecord(name, d[1], d[2]),
                                                 "new", Cardinality(att[sid])))
                    /\ UNCHANGED <<next_client_id, clients, client_dimensions,
                                   handler>>

\* NEW_SESSION; `ids` are the session ids of the run
NewSession(c, requested, ids) ==
    /\ UNCHANGED <<daemon, writers_closed, codec>>
    /\ CanDispatch(c)
    /\ MaySend
    /\ LET name == IF requested = "" THEN DefaultName ELSE requested
       IN  IF c \notin DOMAIN client_dimensions
             \* RuntimeError("Client must send IDENTIFY before NEW_SESSION")
           THEN /\ Raise(c, ErrorFrame("Client must send IDENTIFY before NEW_SESSION", 0))
                /\ UNCHANGED <<registry, next_client_id, clients,
                               client_dimensions, client_sessions, pty_tasks,
                               pump>>
           ELSE IF name \in DOMAIN sessions_by_name
             \* create_session: ValueError, the name is in use
           THEN /\ Raise(c, ErrorFrame("Session with name already exists", 0))
                /\ UNCHANGED <<registry, next_client_id, clients,
                               client_dimensions, client_sessions, pty_tasks,
                               pump>>
           ELSE LET sid == next_session_id
                    d == client_dimensions[c]
                    att == attach_client(Put(attached_clients, sid, {}), sid, c)
                IN  /\ next_session_id \in ids
                    /\ sessions' = Put(sessions, sid,
                                       NewSessionRecord(name, d[1], d[2]))
                    /\ sessions_by_name' = Put(sessions_by_name, name, sid)
                    /\ next_session_id' = next_session_id + 1
                    /\ next_pane_id' = next_pane_id + 1
                    /\ attached_clients' = att
                    /\ client_sessions' = Put(client_sessions, c, sid)
                    /\ pty_tasks' = start_pty_forwarding_keys(sid)
                    /\ pump' = start_pty_forwarding(sid, DOMAIN sessions \cup {sid})
                    /\ sent' = Write(sent, c,
                                     SessionInfo(NewSessionRecord(name, d[1], d[2]),
                                                 "new", Cardinality(att[sid])))
                    /\ UNCHANGED <<next_client_id, clients, client_dimensions,
                                   handler>>

\* ATTACH that joins the attachment set and waits before it has written the
\* snapshot.
AttachBeforeSnapshot(c, s) ==
    /\ UNCHANGED <<daemon, writers_closed, codec>>
    /\ CanDispatch(c)
    /\ MaySend
    /\ find_session(s)
    /\ ~ActivePane(s).is_dead
    /\ attached_clients' = attach_client(attached_clients, s, c)
    /\ client_sessions' = Put(client_sessions, c, s)
    /\ handler' = [handler EXCEPT ![c] = AttachDrain(s)]
    /\ UNCHANGED <<sessions, sessions_by_name, next_session_id, next_pane_id,
                   next_client_id, clients, client_dimensions, pty_tasks, pump,
                   sent>>

\* ATTACH that does not look at the pane's is_dead.
AttachDeadPane(c, s) ==
    /\ UNCHANGED <<daemon, writers_closed, codec>>
    /\ CanDispatch(c)
    /\ MaySend
    /\ find_session(s)
    /\ attached_clients' = attach_client(attached_clients, s, c)
    /\ client_sessions' = Put(client_sessions, c, s)
    /\ sent' = Write(sent, c, SnapshotOutput(s, ActivePane(s).fed))
    /\ handler' = [handler EXCEPT ![c] = AttachDrain(s)]
    /\ UNCHANGED <<sessions, sessions_by_name, next_session_id, next_pane_id,
                   next_client_id, clients, client_dimensions, pty_tasks, pump>>

\* An ATTACH to an id not held that drops the record of the session the
\* client is attached to.
AttachForgets(c, s) ==
    /\ UNCHANGED <<daemon, writers_closed, codec>>
    /\ CanDispatch(c)
    /\ MaySend
    /\ IF ~find_session(s)
         \* RuntimeError("Session not found")
       THEN /\ Raise(c, ErrorFrame("Session not found", s))
            /\ client_sessions' = Pop(client_sessions, c)
            /\ UNCHANGED <<registry, next_client_id, clients,
                           client_dimensions, pty_tasks, pump>>
       ELSE IF ActivePane(s).is_dead
       THEN /\ sent' = Write(sent, c, ShellExited(s, "attach"))
            /\ UNCHANGED <<registry, next_client_id, clients,
                           client_dimensions, client_sessions, pty_tasks,
                           pump, handler>>
       ELSE /\ attached_clients' = attach_client(attached_clients, s, c)
            /\ client_sessions' = Put(client_sessions, c, s)
            /\ sent' = Write(sent, c, SnapshotOutput(s, ActivePane(s).fed))
            /\ handler' = [handler EXCEPT ![c] = AttachDrain(s)]
            /\ UNCHANGED <<sessions, sessions_by_name, next_session_id,
                           next_pane_id, next_client_id, clients,
                           client_dimensions, pty_tasks, pump>>

\* ATTACH, up to the `await writer.drain()` that follows the snapshot
Attach(c, s) ==
    /\ UNCHANGED <<daemon, writers_closed, codec>>
    /\ CanDispatch(c)
    /\ MaySend
    /\ IF ~find_session(s)
         \* RuntimeError("Session not found")
       THEN /\ Raise(c, ErrorFrame("Session not found", s))
            /\ UNCHANGED <<registry, next_client_id, clients,
                           client_dimensions, client_sessions, pty_tasks,
                           pump>>
       ELSE IF ActivePane(s).is_dead
       THEN /\ sent' = Write(sent, c, ShellExited(s, "attach"))
            /\ UNCHANGED <<registry, next_client_id, clients,
                           client_dimensions, client_sessions, pty_tasks,
                           pump, handler>>
       ELSE /\ attached_clients' = attach_client(attached_clients, s, c)
            /\ client_sessions' = Put(client_sessions, c, s)
            /\ sent' = Write(sent, c, SnapshotOutput(s, ActivePane(s).fed))
            /\ handler' = [handler EXCEPT ![c] = AttachDrain(s)]
            /\ UNCHANGED <<sessions, sessions_by_name, next_session_id,
                           next_pane_id, next_client_id, clients,
                           client_dimensions, pty_tasks, pump>>

\* ATTACH, from the return of the snapshot's drain to the end: start the
\* pump if none is registered, then reply SESSION_INFO.
AttachReply(c) ==
    /\ UNCHANGED <<daemon, writers_closed, codec>>
    /\ c \in DOMAIN handler
    /\ handler[c].pc = "attach_drain"
    /\ c \in clients
    /\ c \notin writers_closed
    /\ LET s == handler[c].sid
       IN  /\ pty_tasks' = start_pty_forwarding_keys(s)
           /\ pump' = start_pty_forwarding(s, DOMAIN sessions)
           /\ IF s \notin DOMAIN attached_clients
                \* get_attached_clients: KeyError, the session was destroyed
              THEN Raise(c, ErrorFrame("KeyError", s))
              ELSE /\ sent' = Write(sent, c,
                         SessionInfo(sessions[s], "attach",
                                     Cardinality(get_attached_clients(s))))
                   /\ handler' = [handler EXCEPT ![c] = Idle]
    /\ UNCHANGED <<registry, next_client_id, clients, client_dimensions,
                   client_sessions>>

\* ATTACH by a connection to the session it is attached to already, up to
\* the `await writer.drain()` that follows the snapshot: the registry's
\* attachment set is a set and keeps its one entry.  Such an ATTACH is sent
\* only while fewer than MaxReplies snapshots were written.
Reattach(c, s) ==
    /\ UNCHANGED <<daemon, writers_closed, codec>>
    /\ CanDispatch(c)
    /\ Written({"snapshot"}, TRUE) < MaxReplies
    /\ find_session(s)
    /\ ~ActivePane(s).is_dead
    /\ c \in DOMAIN client_sessions
    /\ client_sessions[c] = s
    /\ c \in get_attached_clients(s)
    /\ attached_clients' = attach_client(attached_clients, s, c)
    /\ client_sessions' = Put(client_sessions, c, s)
    /\ sent' = Write(sent, c, SnapshotOutput(s, ActivePane(s).fed))
    /\ handler' = [handler EXCEPT ![c] = AttachDrain(s)]
    /\ UNCHANGED <<sessions, sessions_by_name, next_session_id,
                   next_pane_id, next_client_id, clients,
                   client_dimensions, pty_tasks, pump>>

\* A DETACH that leaves the attached-session record in place.
DetachKeepsRecord(c) ==
    /\ UNCHANGED <<daemon, writers_closed, codec>>
    /\ CanDispatch(c)
    /\ IF c \notin DOMAIN client_sessions
       THEN UNCHANGED <<attached_clients, client_sessions, handler, sent>>
       ELSE IF client_sessions[c] \notin DOMAIN attached_clients
       THEN /\ Raise(c, ErrorFrame("KeyError", client_sessions[c]))
            /\ UNCHANGED <<attached_clients, client_sessions>>
       ELSE /\ attached_clients' =
                   detach_client(attached_clients, client_sessions[c], c)
            /\ UNCHANGED <<client_sessions, handler, sent>>
    /\ UNCHANGED <<sessions, sessions_by_name, next_session_id, next_pane_id,
                   next_client_id, clients, client_dimensions, pty_tasks, pump>>

\* DETACH
Detach(c) ==
    /\ UNCHANGED <<daemon, writers_closed, codec>>
    /\ CanDispatch(c)
    /\ IF c \notin DOMAIN client_sessions
       THEN UNCHANGED <<attached_clients, client_sessions, handler, sent>>
       ELSE IF client_sessions[c] \notin DOMAIN attached_clients
         \* detach_client: KeyError
       THEN /\ Raise(c, ErrorFrame("KeyError", client_sessions[c]))
            /\ UNCHANGED <<attached_clients, client_sessions>>
       ELSE /\ attached_clients' =
                   detach_client(attached_clients, client_sessions[c], c)
            /\ client_sessions' = Pop(client_sessions, c)
            /\ UNCHANGED <<handler, sent>>
    /\ UNCHANGED <<sessions, sessions_by_name, next_session_id, next_pane_id,
                   next_client_id, clients, client_dimensions, pty_tasks, pump>>

\* task.cancel(): a task that has not ended ends at its await.
Cancel(task) ==
    IF task.pc \in {"done", "failed"} THEN task
    ELSE [pc |-> "cancelled", data |-> 0, client_ids |-> {}, todo |-> {}, cur |-> {}]

\* KILL_SESSION that leaves the session's pump alone.
KillSessionKeepsPump(c, s) ==
    /\ UNCHANGED <<daemon, writers_closed, codec>>
    /\ CanDispatch(c)
    /\ find_session(s)
    /\ client_sessions' =
           [x \in (DOMAIN client_sessions) \ get_attached_clients(s) |->
                client_sessions[x]]
    /\ sessions' = Pop(sessions, s)
    /\ sessions_by_name' = Pop(sessions_by_name, sessions[s].name)
    /\ attached_clients' = Pop(attached_clients, s)
    /\ UNCHANGED <<next_session_id, next_pane_id, next_client_id, clients,
                   client_dimensions, handler, sent, pty_tasks, pump>>

\* KILL_SESSION
KillSession(c, s) ==
    /\ UNCHANGED <<daemon, writers_closed, codec>>
    /\ CanDispatch(c)
    /\ IF ~find_session(s)
       THEN /\ MaySend
            /\ sent' = Write(sent, c, ErrorFrame("Session not found", s))
            /\ UNCHANGED <<registry, next_client_id, clients,
                           client_dimensions, client_sessions, pty_tasks,
                           pump, handler>>
       ELSE LET client_ids == get_attached_clients(s)
            IN  /\ client_sessions' =
                       [x \in (DOMAIN client_sessions) \ client_ids |->
                            client_sessions[x]]
                /\ pty_tasks' = pty_tasks \ {s}
                /\ pump' = IF s \in pty_tasks
                              THEN [pump EXCEPT ![s] = Cancel(@)]
                              ELSE pump
                \* destroy_session
                /\ sessions' = Pop(sessions, s)
                /\ sessions_by_name' = Pop(sessions_by_name, sessions[s].name)
                /\ attached_clients' = Pop(attached_clients, s)
                /\ UNCHANGED <<next_session_id, next_pane_id, next_client_id,
                               clients, client_dimensions, handler, 
                               sent>>

\* The `finally` block of _handle_client.  It is reached from the read loop
\* at EOF, through `except` when the drain after the snapshot raises, and
\* when the drain of the ERROR frame is over.  The peer may close or lose
\* the connection at any time, so the read may meet EOF and a drain may
\* raise whenever the handler waits in them.
Teardown(c) ==
    /\ UNCHANGED <<daemon, codec>>
    /\ c \in DOMAIN handler
    /\ handler[c].pc \in {"idle", "attach_drain", "err_drain"}
    /\ sent' = IF handler[c].pc = "attach_drain"
                 THEN Write(sent, c, ErrorFrame("Connection lost", 0))
                 ELSE sent
    /\ handler' = [handler EXCEPT ![c] = Closed]
    /\ client_sessions' = Pop(client_sessions, c)
    \* writer.close() is the last statement of `finally`
    /\ writers_closed' =
           IF \/ /\ c \in DOMAIN client_sessions
                 /\ client_sessions[c] \notin DOMAIN attached_clients
              \/ c \notin clients
           THEN writers_closed
           ELSE writers_closed \cup {c}
    /\ IF c \in DOMAIN client_sessions
          /\ client_sessions[c] \notin DOMAIN attached_clients
         \* detach_client: KeyError, the rest of `finally` does not run
       THEN UNCHANGED <<attached_clients, clients, client_dimensions>>
       ELSE /\ attached_clients' =
                   IF c \in DOMAIN client_sessions
                   THEN detach_client(attached_clients, client_sessions[c], c)
                   ELSE attached_clients
            /\ IF c \notin clients
                 \* del self._clients[client_id]: KeyError
               THEN UNCHANGED <<clients, client_dimensions>>
               ELSE /\ clients' = clients \ {c}
                    /\ client_dimensions' = Pop(client_dimensions, c)
    /\ UNCHANGED <<sessions, sessions_by_name, next_session_id, next_pane_id,
                   next_client_id, pty_tasks, pump>>

\* ------------------------------------------------------------ fan-out pump

\* _remove_dead_client: _client_sessions afterwards
remove_dead_client_sessions(client_id) == Pop(client_sessions, client_id)

\* _remove_dead_client: the attachment sets afterwards
remove_dead_client_attached(client_id) ==
    IF /\ client_id \in DOMAIN client_sessions
       /\ client_sessions[client_id] \in DOMAIN attached_clients
    THEN detach_client(attached_clients, client_sessions[client_id], client_id)
    ELSE attached_clients

\* A loop that does not move past the client it has written to.
BroadcastAgain(s, frame, client_ids, todo, cl, waiting, over) ==
    IF todo \cap cl = {}
    THEN /\ sent' = sent
         /\ pump' = [pump EXCEPT ![s] = over]
    ELSE LET c == Min(todo \cap cl)
         IN  /\ sent' = Write(sent, c, frame)
             /\ pump' = [pump EXCEPT ![s] =
                            [pc |-> waiting, data |-> frame.n,
                             client_ids |-> client_ids,
                             todo |-> {x \in todo : x >= c}, cur |-> {c}]]

\* The `for client_id in client_ids` loops of _pty_forward_loop and
\* _broadcast_shell_exited, from the client after the last one written to
\* up to the next `await writer.drain()`: ids without a writer are passed
\* over, the frame is written to the first id that has one, and the loop
\* waits; with no such id left the loop is over.  `todo` are the ids of the
\* copied set `client_ids` not yet visited (a set of small ints is visited
\* in rising order), `cl` the keys of _clients.
Broadcast(s, frame, client_ids, todo, cl, waiting, over) ==
    IF todo \cap cl = {}
    THEN /\ sent' = sent
         /\ pump' = [pump EXCEPT ![s] = over]
    ELSE LET c == Min(todo \cap cl)
         IN  /\ sent' = Write(sent, c, frame)
             /\ pump' = [pump EXCEPT ![s] =
                            [pc |-> waiting, data |-> frame.n,
                             client_ids |-> client_ids,
                             todo |-> {x \in todo : x > c}, cur |-> {c}]]

\* pane.feed(data)
feed(pane) == [pane EXCEPT !.fed = @ + 1]

\* A pump that feeds the emulator only when it has a client to write to.
PumpReadWhenAttached(s) ==
    /\ UNCHANGED <<daemon, writers_closed, codec>>
    /\ s \in DOMAIN pump
    /\ pump[s].pc = "read"
    /\ ActivePane(s).fed < MaxChunks
    /\ LET p == sessions[s].active_pane_id
       IN  sessions' = IF get_attached_clients(s) = {} THEN sessions
                       ELSE [sessions EXCEPT ![s].panes[p] = feed(@)]
    /\ Broadcast(s, LiveOutput(s, ActivePane(s).fed + 1),
                 get_attached_clients(s), get_attached_clients(s), clients,
                 "send", Reading)
    /\ UNCHANGED <<sessions_by_name, attached_clients, next_session_id,
                   next_pane_id, next_client_id, clients, client_dimensions,
                   client_sessions, pty_tasks, handler>>

\* read_pty returns a chunk: feed the emulator, copy the attachment set and
\* start to broadcast the chunk.
PumpRead(s) ==
    /\ UNCHANGED <<daemon, writers_closed, codec>>
    /\ s \in DOMAIN pump
    /\ pump[s].pc = "read"
    /\ ActivePane(s).fed < MaxChunks
    /\ LET p == sessions[s].active_pane_id
       IN  sessions' = [sessions EXCEPT ![s].panes[p] = feed(@)]
    /\ Broadcast(s, LiveOutput(s, ActivePane(s).fed + 1),
                 get_attached_clients(s), get_attached_clients(s), clients,
                 "send", Reading)
    /\ UNCHANGED <<sessions_by_name, attached_clients, next_session_id,
                   next_pane_id, next_client_id, clients, client_dimensions,
                   client_sessions, pty_tasks, handler>>

\* An end of the shell that marks the pane dead and tells no client.
PumpEofSilent(s) ==
    /\ UNCHANGED <<daemon, writers_closed, codec>>
    /\ s \in DOMAIN pump
    /\ pump[s].pc = "read"
    /\ LET p == sessions[s].active_pane_id
       IN  sessions' = [sessions EXCEPT ![s].panes[p].is_dead = TRUE]
    /\ pump' = [pump EXCEPT ![s] = Done(get_attached_clients(s))]
    /\ UNCHANGED <<sessions_by_name, attached_clients, next_session_id,
                   next_pane_id, next_client_id, clients, client_dimensions,
                   client_sessions, pty_tasks, handler, sent>>

\* read_pty returns no bytes or raises OSError: mark the pane dead and start
\* _broadcast_shell_exited.
PumpEof(s) ==
    /\ UNCHANGED <<daemon, writers_closed, codec>>
    /\ s \in DOMAIN pump
    /\ pump[s].pc = "read"
    /\ LET p == sessions[s].active_pane_id
       IN  sessions' = [sessions EXCEPT ![s].panes[p].is_dead = TRUE]
    /\ Broadcast(s, ShellExited(s, "exit"), get_attached_clients(s),
                 get_attached_clients(s), clients, "exit",
                 Done(get_attached_clients(s)))
    /\ UNCHANGED <<sessions_by_name, attached_clients, next_session_id,
                   next_pane_id, next_client_id, clients, client_dimensions,
                   client_sessions, pty_tasks, handler>>

\* `await writer.drain()` of either loop is over: it raised (the connection
\* is lost) and _remove_dead_client runs, or it returned; the loop goes on.
PumpDrained(s) ==
    /\ UNCHANGED <<daemon, writers_closed, codec>>
    /\ s \in DOMAIN pump
    /\ pump[s].pc \in {"send", "exit"}
    /\ \E raised \in BOOLEAN :
         LET c == CHOOSE x \in pump[s].cur : TRUE
             frame == IF pump[s].pc = "send"
                      THEN LiveOutput(s, pump[s].data)
                      ELSE ShellExited(s, "exit")
             over == IF pump[s].pc = "send" THEN Reading
                     ELSE Done(pump[s].client_ids)
         IN  /\ IF raised
                THEN /\ client_sessions' = remove_dead_client_sessions(c)
                     /\ attached_clients' = remove_dead_client_attached(c)
                     /\ clients' = clients \ {c}
                     /\ client_dimensions' = Pop(client_dimensions, c)
                ELSE UNCHANGED <<client_sessions, attached_clients, clients,
                                 client_dimensions>>
             /\ Broadcast(s, frame, pump[s].client_ids, pump[s].todo, clients',
                          pump[s].pc, over)
    /\ UNCHANGED <<sessions, sessions_by_name, next_session_id, next_pane_id,
                   next_client_id, pty_tasks, handler>>

\* ------------------------------------------------- registry, called directly

\* What the registry's operations leave alone.
server == <<next_client_id, clients, client_dimensions, client_sessions,
            pty_tasks, pump, handler, sent, writers_closed, daemon, codec>>

\* SessionManager.create_session(name, shell, width, height).  `spawned` is
\* spawn_shell returning: when it raises (no PTY, no process) the ids are
\* already taken.
CreateSession(name, d, spawned) ==
    /\ next_session_id \in RegSessions
    /\ next_pane_id \in RegPanes
    /\ IF name \in DOMAIN sessions_by_name
         \* ValueError: the name is in use
       THEN UNCHANGED registry
       ELSE /\ next_session_id' = next_session_id + 1
            /\ next_pane_id' = next_pane_id + 1
            /\ IF ~spawned
               THEN UNCHANGED <<sessions, sessions_by_name, attached_clients>>
               ELSE /\ sessions' = Put(sessions, next_session_id,
                                       NewSessionRecord(name, d[1], d[2]))
                    /\ sessions_by_name' =
                           Put(sessions_by_name, name, next_session_id)
                    /\ attached_clients' =
                           Put(attached_clients, next_session_id, {})
    /\ UNCHANGED server

\* A destroy_session that leaves the name in the by-name index.
DestroySessionKeepsName(session_id) ==
    /\ IF session_id \notin DOMAIN sessions
       THEN UNCHANGED registry
       ELSE /\ sessions' = Pop(sessions, session_id)
            /\ attached_clients' = Pop(attached_clients, session_id)
            /\ UNCHANGED <<sessions_by_name, next_session_id, next_pane_id>>
    /\ UNCHANGED server

\* SessionManager.destroy_session(session_id)
DestroySession(session_id) ==
    /\ IF session_id \notin DOMAIN sessions
         \* KeyError
       THEN UNCHANGED registry
       ELSE /\ sessions' = Pop(sessions, session_id)
            /\ sessions_by_name' =
                   Pop(sessions_by_name, sessions[session_id].name)
            /\ attached_clients' = Pop(attached_clients, session_id)
            /\ UNCHANGED <<next_session_id, next_pane_id>>
    /\ UNCHANGED server

\* A create_pane that gives the new pane the smallest id no pane has now.
CreatePaneReuses(session_id, d, spawned) ==
    /\ next_pane_id \in RegPanes
    /\ IF session_id \notin DOMAIN sessions
       THEN UNCHANGED registry
       ELSE LET used == UNION {DOMAIN sessions[s].panes : s \in DOMAIN sessions}
                pane_id == Min(RegPanes \ used)
            IN  /\ RegPanes \ used # {}
                /\ next_pane_id' = IF pane_id = next_pane_id
                                   THEN next_pane_id + 1 ELSE next_pane_id
                /\ sessions' =
                      [sessions EXCEPT
                          ![session_id].panes =
                              Put(@, pane_id, Pane(pane_id, d[1], d[2])),
                          ![session_id].pane_keys = Append(@, pane_id)]
                /\ UNCHANGED <<sessions_by_name, attached_clients, next_session_id>>
    /\ UNCHANGED server

\* SessionManager.create_pane(session_id, shell, width, height)
CreatePane(session_id, d, spawned) ==
    /\ next_pane_id \in RegPanes
    /\ IF session_id \notin DOMAIN sessions
         \* KeyError
       THEN UNCHANGED registry
       ELSE /\ next_pane_id' = next_pane_id + 1
            /\ IF ~spawned
               THEN UNCHANGED sessions
               ELSE sessions' =
                      [sessions EXCEPT
                          ![session_id].panes =
                              Put(@, next_pane_id, Pane(next_pane_id, d[1], d[2])),
                          ![session_id].pane_keys = Append(@, next_pane_id)]
            /\ UNCHANGED <<sessions_by_name, attached_clients, next_session_id>>
    /\ UNCHANGED server

\* A destroy_pane that leaves active_pane_id as it is.
DestroyPaneKeepsActive(session_id, pane_id) ==
    /\ IF \/ session_id \notin DOMAIN sessions
          \/ pane_id \notin DOMAIN sessions[session_id].panes
          \/ Cardinality(DOMAIN sessions[session_id].panes) = 1
         \* KeyError, KeyError, ValueError
       THEN UNCHANGED registry
       ELSE LET panes == Pop(sessions[session_id].panes, pane_id)
                keys == SelectSeq(sessions[session_id].pane_keys,
                                  LAMBDA k : k # pane_id)
            IN  /\ sessions' =
                      [sessions EXCEPT
                          ![session_id].panes = panes,
                          ![session_id].pane_keys = keys,
                          ![session_id].active_pane_id =
                              @]
                /\ UNCHANGED <<sessions_by_name, attached_clients,
                               next_session_id, next_pane_id>>
    /\ UNCHANGED server

\* A destroy_pane that makes the pane put in last the active one.
DestroyPanePromotesLast(session_id, pane_id) ==
    /\ IF \/ session_id \notin DOMAIN sessions
          \/ pane_id \notin DOMAIN sessions[session_id].panes
          \/ Cardinality(DOMAIN sessions[session_id].panes) = 1
         \* KeyError, KeyError, ValueError
       THEN UNCHANGED registry
       ELSE LET panes == Pop(sessions[session_id].panes, pane_id)
                keys == SelectSeq(sessions[session_id].pane_keys,
                                  LAMBDA k : k # pane_id)
            IN  /\ sessions' =
                      [sessions EXCEPT
                          ![session_id].panes = panes,
                          ![session_id].pane_keys = keys,
                          ![session_id].active_pane_id =
                              IF @ = pane_id THEN keys[Len(keys)] ELSE @]
                /\ UNCHANGED <<sessions_by_name, attached_clients,
                               next_session_id, next_pane_id>>
    /\ UNCHANGED server

\* SessionManager.destroy_pane(session_id, pane_id).  next(iter(panes)) is
\* the first key of the dict: the pane that was put in first.
DestroyPane(session_id, pane_id) ==
    /\ IF \/ session_id \notin DOMAIN sessions
          \/ pane_id \notin DOMAIN sessions[session_id].panes
          \/ Cardinality(DOMAIN sessions[session_id].panes) = 1
         \* KeyError, KeyError, ValueError
       THEN UNCHANGED registry
       ELSE LET panes == Pop(sessions[session_id].panes, pane_id)
                keys == SelectSeq(sessions[session_id].pane_keys,
                                  LAMBDA k : k # pane_id)
            IN  /\ sessions' =
                      [sessions EXCEPT
                          ![session_id].panes = panes,
                          ![session_id].pane_keys = keys,
                          ![session_id].active_pane_id =
                              IF @ = pane_id THEN Head(keys) ELSE @]
                /\ UNCHANGED <<sessions_by_name, attached_clients,
                               next_session_id, next_pane_id>>
    /\ UNCHANGED server

\* SessionManager.attach_client(session_id, client_id)
AttachClient(session_id, client_id) ==
    /\ IF session_id \notin DOMAIN attached_clients
         \* KeyError
       THEN UNCHANGED attached_clients
       ELSE attached_clients' =
               attach_client(attached_clients, session_id, client_id)
    /\ UNCHANGED <<sessions, sessions_by_name, next_session_id, next_pane_id>>
    /\ UNCHANGED server

\* SessionManager.detach_client(session_id, client_id)
DetachClient(session_id, client_id) ==
    /\ IF session_id \notin DOMAIN attached_clients
         \* KeyError
       THEN UNCHANGED attached_clients
       ELSE attached_clients' =
               detach_client(attached_clients, session_id, client_id)
    /\ UNCHANGED <<sessions, sessions_by_name, next_session_id, next_pane_id>>
    /\ UNCHANGED server

\* ------------------------------------------------------- INPUT and RESIZE

\* What INPUT and RESIZE raise before they touch a pane: the connection has
\* no attachment record, or the recorded session is not in the registry.
NoPane(c) ==
    IF c \notin DOMAIN client_sessions
    THEN Raise(c, ErrorFrame("Client not attached to any session", 0))
    ELSE Raise(c, ErrorFrame("Session not found", client_sessions[c]))

\* os.write(pane.pty_fd, data) with len(data) = size returns n: the first n
\* bytes of data are the PTY's.
os_write(pane, size, n) ==
    [pane EXCEPT !.offered = @ + size,
                 !.written = @ \o [i \in 1 .. n |-> pane.offered + i]]

\* An INPUT that, from a connection without attachment, goes to the PTY of
\* the first session there is.
InputToFirst(c, fails) ==
    /\ UNCHANGED <<daemon, writers_closed, codec>>
    /\ CanDispatch(c)
    /\ IF c \notin DOMAIN client_sessions /\ DOMAIN sessions = {}
       THEN /\ NoPane(c)
            /\ UNCHANGED sessions
       ELSE LET s == IF c \in DOMAIN client_sessions THEN client_sessions[c]
                     ELSE Min(DOMAIN sessions)
                p == sessions[s].active_pane_id
            IN  /\ s \in DOMAIN sessions
                /\ ActivePane(s).offered < MaxInputs
                /\ sessions' = [sessions EXCEPT ![s].panes[p] =
                                    os_write(@, 1, 1)]
                /\ UNCHANGED <<handler, sent>>
    /\ UNCHANGED <<sessions_by_name, attached_clients, next_session_id,
                   next_pane_id, next_client_id, clients, client_dimensions,
                   client_sessions, pty_tasks, pump>>

\* INPUT: write_pty on the active pane of the recorded session.  `fails` is
\* os.write raising OSError, which it may do once the shell has exited
\* (whether it does is the platform's choice).  The payload has `size`
\* bytes, of which os.write accepts `n`: all of them, or fewer when the PTY's
\* buffer is full and a signal ends the call.  The handler does not look at
\* what write_pty returns.
Input(c, fails) ==
    /\ UNCHANGED <<daemon, writers_closed, codec>>
    /\ CanDispatch(c)
    /\ IF c \notin DOMAIN client_sessions \/ ~find_session(client_sessions[c])
       THEN /\ NoPane(c)
            /\ UNCHANGED sessions
       ELSE LET s == client_sessions[c]
                p == sessions[s].active_pane_id
            IN  IF fails
                THEN /\ ActivePane(s).is_dead
                     /\ Raise(c, ErrorFrame("Failed to write to PTY", s))
                     /\ UNCHANGED sessions
                ELSE /\ \E size \in 1 .. (MaxInputs - ActivePane(s).offered) :
                         \E n \in 1 .. size :
                            sessions' = [sessions EXCEPT ![s].panes[p] =
                                            os_write(@, size, n)]
                     /\ UNCHANGED <<handler, sent>>
    /\ UNCHANGED <<sessions_by_name, attached_clients, next_session_id,
                   next_pane_id, next_client_id, clients, client_dimensions,
                   client_sessions, pty_tasks, pump>>

\* RESIZE: the pane's width and height are set to the size the client
\* sent, then the PTY's window size (set_pty_size), then the emulator's
\* screen (resize_screen).  `fails` is the ioctl of set_pty_size raising
\* OSError, which it may do once the shell has exited (whether it does is
\* the platform's choice): the width and the height are set by then.
Resize(c, d, fails) ==
    /\ UNCHANGED <<daemon, writers_closed, codec>>
    /\ CanDispatch(c)
    /\ IF c \notin DOMAIN client_sessions \/ ~find_session(client_sessions[c])
       THEN /\ NoPane(c)
            /\ UNCHANGED sessions
       ELSE LET s == client_sessions[c]
                p == sessions[s].active_pane_id
            IN  IF fails
                THEN /\ ActivePane(s).is_dead
                     /\ sessions' = [sessions EXCEPT ![s].panes[p] =
                                        [@ EXCEPT !.width = d[1], !.height = d[2]]]
                     /\ Raise(c, ErrorFrame("ioctl", s))
                ELSE /\ sessions' = [sessions EXCEPT ![s].panes[p] =
                                        [@ EXCEPT !.width = d[1], !.height = d[2],
                                                  !.winsize = d, !.screen = d]]
                     /\ UNCHANGED <<handler, sent>>
    /\ UNCHANGED <<sessions_by_name, attached_clients, next_session_id,
                   next_pane_id, next_client_id, clients, client_dimensions,
                   client_sessions, pty_tasks, pump>>

\* A frame whose type number is no MessageType, or whose payload the
\* message's decode_* cannot unpack: decode raises in _handle_client's loop.
BadMessage(c) ==
    /\ UNCHANGED <<daemon, writers_closed, codec>>
    /\ CanDispatch(c)
    /\ Raise(c, ErrorFrame("protocol", 0))
    /\ UNCHANGED <<registry, next_client_id, clients, client_dimensions,
                   client_sessions, pty_tasks, pump>>

\* A message of a type the server has no branch for (OUTPUT, ERROR,
\* SESSION_INFO, SHELL_EXITED): answered with ERROR, the connection stays.
Unhandled(c) ==
    /\ UNCHANGED <<daemon, writers_closed, codec>>
    /\ CanDispatch(c)
    /\ MaySend
    /\ sent' = Write(sent, c, ErrorFrame("Unhandled message type", 0))
    /\ UNCHANGED <<registry, next_client_id, clients, client_dimensions,
                   client_sessions, pty_tasks, pump, handler>>

\* ---------------------------------------------------------------- shutdown

\* The stop() task waits in `await self._server.wait_closed()`.
WaitServer == [pc |-> "wait_closed", cur |-> {}, todo |-> {}, used |-> 0]
\* The stop() task waits in `await asyncio.sleep(0.1)`.
Sleeping == [pc |-> "sleep", cur |-> {}, todo |-> {}, used |-> 0]
\* stop() has returned.
Stopped == [pc |-> "done", cur |-> {}, todo |-> {}, used |-> 0]
\* stop() raised RuntimeError: dictionary changed size during iteration.
StopRaised == [pc |-> "raised", cur |-> {}, todo |-> {}, used |-> 0]

\* Connections whose transport the server still counts as active.
OpenConnections == (DOMAIN handler) \ writers_closed

\* SIGTERM (_signal_stop) or a call of stop(): the server stops accepting.
\* Server.wait_closed() returns at once where the interpreter's asyncio does
\* not wait for the open connections (Python up to 3.11), and waits until
\* none is left where it does (from 3.12 on).  When it has returned the
\* shells are sent SIGKILL and the task sleeps.
StopInvoke ==
    /\ UNCHANGED codec
    /\ stop_task.pc = "idle"
    /\ serving' = FALSE
    /\ \E waits \in BOOLEAN :
          stop_task' = IF waits /\ OpenConnections # {} THEN WaitServer
                       ELSE Sleeping
    /\ UNCHANGED <<registry, next_client_id, clients, client_dimensions,
                   client_sessions, pty_tasks, pump, handler, sent,
                   writers_closed, socket_file, shutdown_event, socket_path,
                   pid_files>>

\* wait_closed() returns when the last open connection is gone.
StopServerClosed ==
    /\ UNCHANGED codec
    /\ stop_task.pc = "wait_closed"
    /\ OpenConnections = {}
    /\ stop_task' = Sleeping
    /\ UNCHANGED <<registry, next_client_id, clients, client_dimensions,
                   client_sessions, pty_tasks, pump, handler, sent,
                   writers_closed, serving, socket_file, shutdown_event,
                   socket_path, pid_files>>

\* The `for writer in self._clients.values()` loop of stop(), from the
\* writer after the last one closed up to the next `await
\* writer.wait_closed()`, or to the end of stop() when no writer is left:
\* _clients.clear(), the socket and PID files are removed and the shutdown
\* event is set.  `cl` are the keys of _clients (a dict is gone over in the
\* order of insertion, which is the order of the client ids), `todo` the
\* keys not yet visited and `used` the size of the dict when the loop
\* began: the iterator raises when the size has changed.
CloseWriters(cl, todo, used) ==
    IF Cardinality(cl) # used
    THEN /\ stop_task' = StopRaised
         /\ UNCHANGED <<clients, writers_closed, socket_file, shutdown_event,
                        pid_files>>
    ELSE IF todo = {}
    THEN /\ clients' = {}
         /\ socket_file' = FALSE
         /\ pid_files' = pid_files \ {get_pid_file_path}
         /\ shutdown_event' = TRUE
         /\ stop_task' = Stopped
         /\ UNCHANGED writers_closed
    ELSE LET c == Min(todo)
         IN  /\ writers_closed' = writers_closed \cup {c}
             /\ stop_task' = [pc |-> "closing", cur |-> {c},
                              todo |-> todo \ {c}, used |-> used]
             /\ UNCHANGED <<clients, socket_file, shutdown_event, pid_files>>

\* The sleep is over: every registered pump is cancelled and _pty_tasks
\* cleared, every session of the registry is destroyed, and the loop over
\* the client writers begins.
StopAfterSleep ==
    /\ UNCHANGED codec
    /\ stop_task.pc = "sleep"
    /\ pump' = [s \in DOMAIN pump |->
                  IF s \in pty_tasks THEN Cancel(pump[s]) ELSE pump[s]]
    /\ pty_tasks' = {}
    /\ sessions' = EmptyDict
    /\ sessions_by_name' = EmptyDict
    /\ attached_clients' = EmptyDict
    /\ CloseWriters(clients, clients, Cardinality(clients))
    /\ UNCHANGED <<next_session_id, next_pane_id, next_client_id,
                   client_dimensions, client_sessions, handler, sent, serving,
                   socket_path>>

\* `await writer.wait_closed()` is over: the loop goes on.
StopWriterClosed ==
    /\ UNCHANGED codec
    /\ stop_task.pc = "closing"
    /\ CloseWriters(clients, stop_task.todo, stop_task.used)
    /\ UNCHANGED <<registry, next_client_id, client_dimensions,
                   client_sessions, pty_tasks, pump, handler, sent, serving,
                   socket_path>>

\* The interpreter exits without stop() in progress, on an exception or
\* when asyncio.run has returned: _atexit_cleanup runs, and with the process
\* its listening socket, its connections and its tasks are gone.
Exited == [pc |-> "exited", cur |-> {}, todo |-> {}, used |-> 0]

atexit_cleanup ==
    /\ UNCHANGED codec
    /\ stop_task.pc \in {"idle", "done", "raised"}
    /\ socket_file' = FALSE
    /\ pid_files' = pid_files \ {get_pid_file_path}
    /\ stop_task' = Exited
    /\ serving' = FALSE
    /\ handler' = [c \in DOMAIN handler |-> Closed]
    /\ writers_closed' = writers_closed \cup DOMAIN handler
    /\ pump' = [s \in DOMAIN pump |-> Cancel(pump[s])]
    /\ UNCHANGED <<registry, next_client_id, clients, client_dimensions,
                   client_sessions, pty_tasks, sent, shutdown_event,
                   socket_path>>

\* ------------------------------------------------------------------- codec

\* A byte string is a sequence of numbers 0 .. 255.  Python's ints have no
\* width; a number that goes through a 32-bit field is held as the pair
\* <<high, low>> of its 16-bit halves, so that 2^32 - 1 is <<65535, 65535>>.

\* The pair for a small number n, such as a len()
Wide(n) == <<n \div 65536, n % 65536>>

\* data[i:j] of a bytes object, for 0 <= i <= j
Slice(data, i, j) ==
    SubSeq(data, i + 1, IF j < Len(data) THEN j ELSE Len(data))

\* A call that returned v / a call that raised exception e
Ok(v) == [value |-> v]
Raised(e) == [raised |-> e]
HasRaised(r) == "raised" \in DOMAIN r

\* struct.pack("<H", v): little-endian
pack_H_little(v) == <<v % 256, v \div 256>>
\* struct.pack("!H", v) for v in 0 .. 65535: big-endian
pack_H(v) == <<v \div 256, v % 256>>
\* struct.unpack("!H", b)[0] for two bytes b
unpack_H(b) == b[1] * 256 + b[2]
\* struct.pack("!I", v)
pack_I(v) == pack_H(v[1]) \o pack_H(v[2])
\* struct.unpack("!I", b)[0] for four bytes b
unpack_I(b) == <<unpack_H(SubSeq(b, 1, 2)), unpack_H(SubSeq(b, 3, 4))>>
\* struct.pack("!d", x): a float is held as the four 16-bit words of its
\* IEEE 754 binary64 image, highest first
pack_d(x) == pack_H(x[1]) \o pack_H(x[2]) \o pack_H(x[3]) \o pack_H(x[4])
\* struct.unpack("!d", b)[0] for eight bytes b
unpack_d(b) ==
    <<unpack_H(SubSeq(b, 1, 2)), unpack_H(SubSeq(b, 3, 4)),
      unpack_H(SubSeq(b, 5, 6)), unpack_H(SubSeq(b, 7, 8))>>

\* str.encode("utf-8") of one character, given by its code point (no
\* surrogate)
utf8_char(cp) ==
    IF cp < 128 THEN <<cp>>
    ELSE IF cp < 2048 THEN <<192 + cp \div 64, 128 + (cp % 64)>>
    ELSE IF cp < 65536
      THEN <<224 + cp \div 4096, 128 + ((cp \div 64) % 64), 128 + (cp % 64)>>
      ELSE <<240 + cp \div 262144, 128 + ((cp \div 4096) % 64),
             128 + ((cp \div 64) % 64), 128 + (cp % 64)>>

\* str.encode("utf-8"): a str is the sequence of its code points
RECURSIVE utf8_encode(_)
utf8_encode(str) ==
    IF str = <<>> THEN <<>>
    ELSE utf8_char(Head(str)) \o utf8_encode(Tail(str))

\* bytes.decode("utf-8"): strict, UnicodeDecodeError on a byte that starts
\* no character, on a character cut short, on a byte that does not continue
\* one, on an overlong form, a surrogate or a code point above U+10FFFF
RECURSIVE utf8_decode(_)
utf8_decode(b) ==
    IF b = <<>> THEN Ok(<<>>)
    ELSE LET n == IF b[1] < 128 THEN 1
                  ELSE IF b[1] \in 194 .. 223 THEN 2
                  ELSE IF b[1] \in 224 .. 239 THEN 3
                  ELSE IF b[1] \in 240 .. 244 THEN 4
                  ELSE 0
         IN  IF \/ n = 0
                \/ Len(b) < n
                \/ \E i \in 2 .. n : b[i] \notin 128 .. 191
             THEN Raised("UnicodeDecodeError")
             ELSE LET cp == IF n = 1 THEN b[1]
                            ELSE IF n = 2 THEN (b[1] - 192) * 64 + (b[2] - 128)
                            ELSE IF n = 3
                              THEN (b[1] - 224) * 4096 + (b[2] - 128) * 64
                                   + (b[3] - 128)
                              ELSE (b[1] - 240) * 262144 + (b[2] - 128) * 4096
                                   + (b[3] - 128) * 64 + (b[4] - 128)
                      rest == utf8_decode(SubSeq(b, n + 1, Len(b)))
                  IN  IF \/ n = 3 /\ (cp < 2048 \/ cp \in 55296 .. 57343)
                         \/ n = 4 /\ (cp < 65536 \/ cp > 1114111)
                      THEN Raised("UnicodeDecodeError")
                      ELSE IF HasRaised(rest) THEN rest
                      ELSE Ok(<<cp>> \o rest.value)

\* class MessageType(IntEnum): the member of value i is MessageType[i + 1]
MessageType ==
    <<"IDENTIFY", "NEW_SESSION", "ATTACH", "DETACH", "LIST_SESSIONS",
      "RESIZE", "INPUT", "OUTPUT", "ERROR", "SESSION_INFO", "SHELL_EXITED",
      "KILL_SESSION">>

\* int(member)
IntOf(msg_type) ==
    (CHOOSE i \in DOMAIN MessageType : MessageType[i] = msg_type) - 1

HEADER_SIZE == 8

\* Message(msg_type, payload)
Message(msg_type, payload) == [msg_type |-> msg_type, payload |-> payload]

\* The `None` that decode returns for the message
None == [none |-> TRUE]

\* Message.encode
Message_encode(m) ==
    pack_I(Wide(IntOf(m.msg_type))) \o pack_I(Wide(Len(m.payload))) \o m.payload

\* decode that builds MessageType(msg_type_int) as soon as it has unpacked
\* the header, before it looks at the payload length.
decode_type_first(data) ==
    IF Len(data) < HEADER_SIZE
    THEN Ok([message |-> None, remaining |-> data])
    ELSE LET msg_type_int == unpack_I(SubSeq(data, 1, 4))
             payload_len == unpack_I(SubSeq(data, 5, 8))
             total_len == HEADER_SIZE + payload_len[2]
         IN  IF msg_type_int[1] > 0 \/ msg_type_int[2] >= Len(MessageType)
             THEN Raised("ValueError")
             ELSE IF payload_len[1] > 0 \/ Len(data) < total_len
             THEN Ok([message |-> None, remaining |-> data])
             ELSE Ok([message |-> Message(MessageType[msg_type_int[2] + 1],
                                          Slice(data, HEADER_SIZE, total_len)),
                      remaining |-> Slice(data, total_len, Len(data))])

\* decode whose second test is `<=`: a frame that has just become complete
\* is still held to be incomplete.
decode_waits(data) ==
    IF Len(data) < HEADER_SIZE
    THEN Ok([message |-> None, remaining |-> data])
    ELSE LET msg_type_int == unpack_I(SubSeq(data, 1, 4))
             payload_len == unpack_I(SubSeq(data, 5, 8))
             total_len == HEADER_SIZE + payload_len[2]
         IN  IF payload_len[1] > 0 \/ Len(data) <= total_len
             THEN Ok([message |-> None, remaining |-> data])
             ELSE IF msg_type_int[1] > 0 \/ msg_type_int[2] >= Len(MessageType)
             THEN Raised("ValueError")
             ELSE Ok([message |-> Message(MessageType[msg_type_int[2] + 1],
                                          Slice(data, HEADER_SIZE, total_len)),
                      remaining |-> Slice(data, total_len, Len(data))])

\* decode(data).  The buffers of the model are shorter than 65536 bytes, so
\* a payload length of 65536 or more is more than the buffer holds.
decode(data) ==
    IF Len(data) < HEADER_SIZE
    THEN Ok([message |-> None, remaining |-> data])
    ELSE LET msg_type_int == unpack_I(SubSeq(data, 1, 4))
             payload_len == unpack_I(SubSeq(data, 5, 8))
             total_len == HEADER_SIZE + payload_len[2]
         IN  IF payload_len[1] > 0 \/ Len(data) < total_len
             THEN Ok([message |-> None, remaining |-> data])
             \* MessageType(msg_type_int)
             ELSE IF msg_type_int[1] > 0 \/ msg_type_int[2] >= Len(MessageType)
             THEN Raised("ValueError")
             ELSE Ok([message |-> Message(MessageType[msg_type_int[2] + 1],
                                          Slice(data, HEADER_SIZE, total_len)),
                      remaining |-> Slice(data, total_len, Len(data))])

\* encode_identify(width, height)
encode_identify(width, height) ==
    Message("IDENTIFY", pack_H(width) \o pack_H(height))

\* decode_identify(payload): struct.unpack("!HH", ...) takes four bytes, no
\* fewer and no more
decode_identify(payload) ==
    IF Len(payload) # 4 THEN Raised("struct.error")
    ELSE Ok(<<unpack_H(SubSeq(payload, 1, 2)), unpack_H(SubSeq(payload, 3, 4))>>)

\* encode_new_session(name)
encode_new_session(name) ==
    LET name_bytes == utf8_encode(name)
    IN  Message("NEW_SESSION", pack_I(Wide(Len(name_bytes))) \o name_bytes)

\* The bytes of a length-prefixed string: payload[4 : 4 + str_len], after
\* str_len = struct.unpack("!I", payload[:4])[0]
PrefixedBytes(payload) ==
    LET str_len == unpack_I(Slice(payload, 0, 4))
    IN  IF str_len[1] > 0 THEN Slice(payload, 4, Len(payload))
        ELSE Slice(payload, 4, 4 + str_len[2])

\* decode_new_session(payload)
decode_new_session(payload) ==
    IF Len(Slice(payload, 0, 4)) # 4 THEN Raised("struct.error")
    ELSE LET name == utf8_decode(PrefixedBytes(payload))
         IN  IF HasRaised(name) THEN name ELSE Ok(<<name.value>>)

\* encode_attach(session_id)
encode_attach(session_id) == Message("ATTACH", pack_I(session_id))

\* decode_attach(payload)
decode_attach(payload) ==
    IF Len(payload) # 4 THEN Raised("struct.error")
    ELSE Ok(<<unpack_I(payload)>>)

\* encode_detach()
encode_detach == Message("DETACH", <<>>)

\* encode_list_sessions()
encode_list_sessions == Message("LIST_SESSIONS", <<>>)

\* encode_resize(width, height)
encode_resize(width, height) ==
    Message("RESIZE", pack_H(width) \o pack_H(height))

\* decode_resize(payload)
decode_resize(payload) ==
    IF Len(payload) # 4 THEN Raised("struct.error")
    ELSE Ok(<<unpack_H(SubSeq(payload, 1, 2)), unpack_H(SubSeq(payload, 3, 4))>>)

\* encode_input(data)
encode_input(data) == Message("INPUT", data)

\* decode_input(payload)
decode_input(payload) == Ok(<<payload>>)

\* encode_output(data)
encode_output(data) == Message("OUTPUT", data)

\* decode_output(payload)
decode_output(payload) == Ok(<<payload>>)

\* encode_error(message)
encode_error(message) ==
    LET msg_bytes == utf8_encode(message)
    IN  Message("ERROR", pack_I(Wide(Len(msg_bytes))) \o msg_bytes)

\* decode_error(payload)
decode_error(payload) ==
    IF Len(Slice(payload, 0, 4)) # 4 THEN Raised("struct.error")
    ELSE LET message == utf8_decode(PrefixedBytes(payload))
         IN  IF HasRaised(message) THEN message ELSE Ok(<<message.value>>)

\* encode_session_info(session_id, name, pane_id, pid, width, height,
\* created_at, attached_count)
encode_session_info(session_id, name, pane_id, pid, width, height, created_at, attached_count) ==
    LET name_bytes == utf8_encode(name)
    IN  Message("SESSION_INFO",
                pack_I(session_id) \o pack_I(Wide(Len(name_bytes)))
                \o name_bytes \o pack_I(pane_id) \o pack_I(pid)
                \o pack_H(width) \o pack_H(height) \o pack_d(created_at)
                \o pack_I(attached_count))

\* decode_session_info(payload).  `offset += name_len` goes past the end of
\* the payload when name_len is more than the bytes that follow, and every
\* slice from there on is empty.
decode_session_info(payload) ==
    IF Len(Slice(payload, 0, 4)) # 4 \/ Len(Slice(payload, 4, 8)) # 4
    THEN Raised("struct.error")
    ELSE LET session_id == unpack_I(Slice(payload, 0, 4))
             name_len == unpack_I(Slice(payload, 4, 8))
             name == utf8_decode(PrefixedBytes(Slice(payload, 4, Len(payload))))
             offset == IF name_len[1] > 0 THEN Len(payload)
                       ELSE 8 + name_len[2]
         IN  IF HasRaised(name) THEN name
             ELSE IF \/ Len(Slice(payload, offset, offset + 4)) # 4
                     \/ Len(Slice(payload, offset + 4, offset + 8)) # 4
                     \/ Len(Slice(payload, offset + 8, offset + 12)) # 4
                     \/ Len(Slice(payload, offset + 12, offset + 20)) # 8
                     \/ Len(Slice(payload, offset + 20, offset + 24)) # 4
             THEN Raised("struct.error")
             ELSE Ok(<<session_id, name.value,
                       unpack_I(Slice(payload, offset, offset + 4)),
                       unpack_I(Slice(payload, offset + 4, offset + 8)),
                       unpack_H(Slice(payload, offset + 8, offset + 10)),
                       unpack_H(Slice(payload, offset + 10, offset + 12)),
                       unpack_d(Slice(payload, offset + 12, offset + 20)),
                       unpack_I(Slice(payload, offset + 20, offset + 24))>>)

\* encode_shell_exited(session_id, pane_id)
encode_shell_exited(session_id, pane_id) ==
    Message("SHELL_EXITED", pack_I(session_id) \o pack_I(pane_id))

\* decode_shell_exited(payload)
decode_shell_exited(payload) ==
    IF Len(payload) # 8 THEN Raised("struct.error")
    ELSE Ok(<<unpack_I(SubSeq(payload, 1, 4)), unpack_I(SubSeq(payload, 5, 8))>>)

\* encode_kill_session(session_id)
encode_kill_session(session_id) == Message("KILL_SESSION", pack_I(session_id))

\* decode_kill_session(payload)
decode_kill_session(payload) ==
    IF Len(payload) # 4 THEN Raised("struct.error")
    ELSE Ok(<<unpack_I(payload)>>)

\* The encoder of each message type, applied to the fields of v.
encode_message(v) ==
    LET f == v.fields
    IN  CASE v.msg_type = "IDENTIFY" -> encode_identify(f[1], f[2])
          [] v.msg_type = "NEW_SESSION" -> encode_new_session(f[1])
          [] v.msg_type = "ATTACH" -> encode_attach(f[1])
          [] v.msg_type = "DETACH" -> encode_detach
          [] v.msg_type = "LIST_SESSIONS" -> encode_list_sessions
          [] v.msg_type = "RESIZE" -> encode_resize(f[1], f[2])
          [] v.msg_type = "INPUT" -> encode_input(f[1])
          [] v.msg_type = "OUTPUT" -> encode_output(f[1])
          [] v.msg_type = "ERROR" -> encode_error(f[1])
          [] v.msg_type = "SESSION_INFO" ->
               encode_session_info(f[1], f[2], f[3], f[4], f[5], f[6], f[7], f[8])
          [] v.msg_type = "SHELL_EXITED" -> encode_shell_exited(f[1], f[2])
          [] v.msg_type = "KILL_SESSION" -> encode_kill_session(f[1])

\* The decoder of message's type, applied to its payload.  DETACH and
\* LIST_SESSIONS have none: their payload is not looked at.
decode_payload(message) ==
    CASE message.msg_type = "IDENTIFY" -> decode_identify(message.payload)
      [] message.msg_type = "NEW_SESSION" -> decode_new_session(message.payload)
      [] message.msg_type = "ATTACH" -> decode_attach(message.payload)
      [] message.msg_type = "DETACH" -> Ok(<<>>)
      [] message.msg_type = "LIST_SESSIONS" -> Ok(<<>>)
      [] message.msg_type = "RESIZE" -> decode_resize(message.payload)
      [] message.msg_type = "INPUT" -> decode_input(message.payload)
      [] message.msg_type = "OUTPUT" -> decode_output(message.payload)
      [] message.msg_type = "ERROR" -> decode_error(message.payload)
      [] message.msg_type = "SESSION_INFO" -> decode_session_info(message.payload)
      [] message.msg_type = "SHELL_EXITED" -> decode_shell_exited(message.payload)
      [] message.msg_type = "KILL_SESSION" -> decode_kill_session(message.payload)

\* Field values the messages are made of: the ends of each range and some
\* values between.  A str is the sequence of its code points: "", "w",
\* "e" with an acute accent (two bytes in UTF-8), the euro sign and "w"
\* (three bytes and one), an emoji (four bytes).
Dimensions == {<<0, 0>>, <<80, 24>>, <<256, 255>>, <<65535, 65535>>}
Ids == {<<0, 0>>, <<0, 1>>, <<1, 0>>, <<65535, 65535>>}
Strings == {<<>>, <<119>>, <<233>>, <<8364, 119>>, <<128512>>}
ByteStrings == {<<>>, <<0>>, <<255, 10>>, <<27, 91, 65>>}
\* 0.0 and 1700000000.5 as binary64
Times == {<<0, 0, 0, 0>>, <<16857, 21756, 16416, 0>>}

\* The messages of every type over those field values.
Values ==
    {[msg_type |-> t, fields |-> d] :
        t \in {"IDENTIFY", "RESIZE"}, d \in Dimensions}
    \cup {[msg_type |-> t, fields |-> <<s>>] :
            t \in {"NEW_SESSION", "ERROR"}, s \in Strings}
    \cup {[msg_type |-> t, fields |-> <<i>>] :
            t \in {"ATTACH", "KILL_SESSION"}, i \in Ids}
    \cup {[msg_type |-> t, fields |-> <<>>] : t \in {"DETACH", "LIST_SESSIONS"}}
    \cup {[msg_type |-> t, fields |-> <<b>>] :
            t \in {"INPUT", "OUTPUT"}, b \in ByteStrings}
    \cup {[msg_type |-> "SHELL_EXITED", fields |-> <<i, j>>] :
            i \in {<<0, 1>>, <<65535, 65535>>}, j \in {<<0, 0>>, <<1, 0>>}}
    \cup {[msg_type |-> "SESSION_INFO",
           fields |-> <<i, s, i, <<0, 1000>>, d[1], d[2], x, i>>] :
            i \in {<<0, 0>>, <<65535, 65535>>}, s \in {<<>>, <<8364, 119>>},
            d \in {<<80, 24>>, <<65535, 0>>}, x \in Times}

\* The messages of the streams: frames of 8, 12, 10 and 14 bytes.
StreamValues ==
    {[msg_type |-> "DETACH", fields |-> <<>>],
     [msg_type |-> "IDENTIFY", fields |-> <<80, 24>>],
     [msg_type |-> "INPUT", fields |-> <<<<255, 10>>>>],
     [msg_type |-> "NEW_SESSION", fields |-> <<<<233>>>>]}

\* Type numbers that no MessageType has: 12, 65536 and 2^32 - 1.
UnknownTypes == {<<0, 12>>, <<1, 0>>, <<65535, 65535>>}

\* All the sequences over S of length n at most.
SeqsUpTo(S, n) == UNION {[1 .. k -> S] : k \in 0 .. n}

\* The peer encodes its next message and writes the frame.
Encode ==
    /\ outgoing # <<>>
    /\ LET v == Head(outgoing)
       IN  /\ wire' = wire \o Message_encode(encode_message(v))
           /\ encoded' = Append(encoded,
                  [value |-> v, whole |-> TRUE,
                   frame |-> Message_encode(encode_message(v))])
    /\ outgoing' = Tail(outgoing)
    /\ UNCHANGED <<buffer, received, endpoint>>

\* A peer writes the frame of its next message with the payload cut to its
\* first n bytes, and the header says n.
EncodeCut(n) ==
    /\ outgoing # <<>>
    /\ LET v == Head(outgoing)
           m == encode_message(v)
           cut == Message(m.msg_type, SubSeq(m.payload, 1, n))
       IN  /\ n < Len(m.payload)
           /\ wire' = wire \o Message_encode(cut)
           /\ encoded' = Append(encoded,
                  [value |-> v, whole |-> FALSE, frame |-> Message_encode(cut)])
    /\ outgoing' = Tail(outgoing)
    /\ UNCHANGED <<buffer, received, endpoint>>

\* A peer writes a frame whose header has the type number msg_type_int,
\* which is no MessageType's, and a payload length of payload_len.
EncodeUnknown(msg_type_int, payload_len, payload) ==
    /\ Len(encoded) + Len(outgoing) < MaxFrames
    /\ LET frame == pack_I(msg_type_int) \o pack_I(payload_len) \o payload
       IN  /\ wire' = wire \o frame
           /\ encoded' = Append(encoded,
                  [value |-> None, whole |-> FALSE, frame |-> frame])
    /\ UNCHANGED <<outgoing, buffer, received, endpoint>>

\* The inner loop of the reader: `message, buffer = decode(buffer)` until
\* the message is None, each message going to the decoder of its type.  An
\* exception leaves the loop with the buffer as it was.
RECURSIVE decode_loop(_, _)
decode_loop(buf, got) ==
    LET r == decode(buf)
    IN  IF HasRaised(r) THEN [buffer |-> buf, received |-> Append(got, r)]
        ELSE IF r.value.message = None
        THEN [buffer |-> r.value.remaining, received |-> got]
        ELSE LET fields == decode_payload(r.value.message)
                 entry == [message |-> r.value.message, fields |-> fields]
             IN  IF HasRaised(fields)
                 THEN [buffer |-> r.value.remaining,
                       received |-> Append(got, entry)]
                 ELSE decode_loop(r.value.remaining, Append(got, entry))

\* The read loop has been left through an exception.
LoopFailed ==
    /\ received # <<>>
    /\ \/ HasRaised(received[Len(received)])
       \/ HasRaised(received[Len(received)].fields)

\* The read loop reads the next n bytes (reader.read returns what has
\* arrived, up to 4096 bytes), adds them to its buffer and decodes.
Receive(n) ==
    /\ n \in 1 .. Len(wire)
    /\ ~LoopFailed
    /\ LET r == decode_loop(buffer \o SubSeq(wire, 1, n), received)
       IN  /\ buffer' = r.buffer
           /\ received' = r.received
    /\ wire' = SubSeq(wire, n + 1, Len(wire))
    /\ UNCHANGED <<outgoing, encoded, endpoint>>

\* -------------------------------------------------------------------- Next

\* What the connection handlers do, with `ids` the session ids of the run.
Handlers(ids) ==
    \/ Accept
    \/ \E c \in ConnIds, d \in Dims : Identify(c, d)
    \/ \E c \in ConnIds, n \in Names : NewSession(c, n, ids)
    \/ \E c \in ConnIds, s \in ids : Attach(c, s)
    \/ \E c \in ConnIds : AttachReply(c)
    \/ \E c \in ConnIds : Detach(c)
    \/ \E c \in ConnIds, s \in ids : KillSession(c, s)
    \/ \E c \in ConnIds : Teardown(c)

\* One session, whose shell writes up to MaxChunks chunks and may exit.
Next ==
    \/ Handlers(OneSession)
    \/ \E s \in OneSession : PumpRead(s)
    \/ \E s \in OneSession : PumpEof(s)
    \/ \E s \in OneSession : PumpDrained(s)

Spec == Init /\ [][Next]_vars

\* Two sessions, whose shells write nothing and may exit.
NextTwo ==
    \/ Handlers(TwoSessions)
    \/ \E s \in TwoSessions : PumpEof(s)
    \/ \E s \in TwoSessions : PumpDrained(s)

SpecTwo == Init /\ [][NextTwo]_vars

\* Two sessions whose shells write nothing, and the daemon may be stopped.
NextStop ==
    \/ NextTwo
    \/ StopInvoke
    \/ StopServerClosed
    \/ StopAfterSleep
    \/ StopWriterClosed

SpecStop == Init /\ [][NextStop]_vars

\* Two sessions whose shells write nothing and do not exit; clients make
\* sessions, attach, disconnect and ask for the list of sessions.
NextList ==
    \/ Accept
    \/ \E c \in ConnIds, d \in Dims : Identify(c, d)
    \/ \E c \in ConnIds, n \in Names : NewSession(c, n, TwoSessions)
    \/ \E c \in ConnIds, s \in TwoSessions : Attach(c, s)
    \/ \E c \in ConnIds : AttachReply(c)
    \/ \E c \in ConnIds : Teardown(c)
    \/ \E c \in ConnIds : ListSessions(c)

SpecList == Init /\ [][NextList]_vars

\* One session whose shell writes nothing and may exit; clients type,
\* resize and send frames that cannot be decoded.
NextIO ==
    \/ Handlers(OneSession)
    \/ \E c \in ConnIds, fails \in BOOLEAN : Input(c, fails)
    \/ \E c \in ConnIds, d \in Dims, fails \in BOOLEAN : Resize(c, d, fails)
    \/ \E c \in ConnIds : BadMessage(c)
    \/ \E s \in OneSession : PumpEof(s)
    \/ \E s \in OneSession : PumpDrained(s)

SpecIO == Init /\ [][NextIO]_vars

\* The registry's operations called in any order with any arguments, while
\* connections are accepted and closed.
NextRegistry ==
    \/ \E n \in RegNames, d \in Dims, spawned \in BOOLEAN :
          CreateSession(n, d, spawned)
    \/ \E s \in RegSessions : DestroySession(s)
    \/ \E s \in RegSessions, d \in Dims, spawned \in BOOLEAN :
          CreatePane(s, d, spawned)
    \/ \E s \in RegSessions, p \in RegPanes : DestroyPane(s, p)
    \/ \E s \in RegSessions, c \in RegClients : AttachClient(s, c)
    \/ \E s \in RegSessions, c \in RegClients : DetachClient(s, c)
    \/ Accept
    \/ \E c \in ConnIds : Teardown(c)

SpecRegistry == Init /\ [][NextRegistry]_vars

\* Sessions are made under any name and destroyed through the registry,
\* and clients ask for sessions without giving a name.
NextNames ==
    \/ \E n \in RegNames, d \in Dims : CreateSession(n, d, TRUE)
    \/ \E s \in RegSessions : DestroySession(s)
    \/ Accept
    \/ \E c \in ConnIds, d \in Dims : Identify(c, d)
    \/ \E c \in ConnIds : NewSession(c, "", RegSessions)
    \/ \E c \in ConnIds : Teardown(c)

SpecNames == Init /\ [][NextNames]_vars

\* One session whose shell neither writes nor exits; clients of three
\* sizes resize and send frames of types the server does not handle.
NextSize ==
    \/ Handlers(OneSession)
    \/ \E c \in ConnIds, d \in Sizes : Identify(c, d)
    \/ \E c \in ConnIds, d \in Sizes, fails \in BOOLEAN : Resize(c, d, fails)
    \/ \E c \in ConnIds : Unhandled(c)

SpecSize == Init /\ [][NextSize]_vars

\* One session whose shell writes nothing and may exit; the clients
\* attached to it resize it to any of three sizes.
NextResize ==
    \/ Accept
    \/ \E c \in ConnIds, d \in Dims : Identify(c, d)
    \/ \E c \in ConnIds, n \in Names : NewSession(c, n, OneSession)
    \/ \E c \in ConnIds, s \in OneSession : Attach(c, s)
    \/ \E c \in ConnIds : AttachReply(c)
    \/ \E c \in ConnIds, d \in Sizes, fails \in BOOLEAN : Resize(c, d, fails)
    \/ \E c \in ConnIds : Teardown(c)
    \/ \E s \in OneSession : PumpEof(s)
    \/ \E s \in OneSession : PumpDrained(s)

SpecResize == Init /\ [][NextResize]_vars

\* The codec on one message: a peer encodes it, whole or with its payload
\* cut short, and the reader decodes the frame it reads in one piece.
InitCodec ==
    /\ InitServer
    /\ outgoing \in {<<v>> : v \in Values}
    /\ encoded = <<>>
    /\ wire = <<>>
    /\ buffer = <<>>
    /\ received = <<>>

NextCodec ==
    \/ Encode
    \/ \E n \in 0 .. MaxCut : EncodeCut(n)
    \/ Receive(Len(wire))

SpecCodec == InitCodec /\ [][NextCodec]_vars

\* The codec on a stream: a peer writes up to MaxFrames frames, of known
\* and of unknown types, and the reader gets them in pieces cut anywhere.
InitStream ==
    /\ InitServer
    /\ outgoing \in SeqsUpTo(StreamValues, MaxFrames)
    /\ encoded = <<>>
    /\ wire = <<>>
    /\ buffer = <<>>
    /\ received = <<>>

NextStream ==
    \/ Encode
    \/ \E t \in UnknownTypes, p \in {<<>>, <<7, 7>>} :
           EncodeUnknown(t, Wide(Len(p)), p)
    \* a payload length of 2^32 - 1, and one byte of the payload
    \/ \E t \in UnknownTypes : EncodeUnknown(t, <<65535, 65535>>, <<7>>)
    \/ \E n \in 1 .. Len(wire) : Receive(n)

SpecStream == InitStream /\ [][NextStream]_vars

\* One session whose shell writes chunks; its clients attach, and attach
\* again while they are attached.
NextAgain ==
    \/ Accept
    \/ \E c \in ConnIds, d \in Dims : Identify(c, d)
    \/ \E c \in ConnIds, n \in Names : NewSession(c, n, OneSession)
    \/ \E c \in ConnIds, s \in OneSession : Attach(c, s)
    \/ \E c \in ConnIds, s \in OneSession : Reattach(c, s)
    \/ \E c \in ConnIds : AttachReply(c)
    \/ \E s \in OneSession : PumpRead(s)
    \/ \E s \in OneSession : PumpDrained(s)

SpecAgain == Init /\ [][NextAgain]_vars

\* Two sessions whose shells write chunks; the clients make sessions and the
\* writes to them may fail.
NextFail ==
    \/ Accept
    \/ \E c \in ConnIds, d \in Dims : Identify(c, d)
    \/ \E c \in ConnIds, n \in Names : NewSession(c, n, TwoSessions)
    \/ \E s \in TwoSessions : PumpRead(s)
    \/ \E s \in TwoSessions : PumpDrained(s)

SpecFail == Init /\ [][NextFail]_vars

\* A daemon made with any socket path, beside the PID files of any daemons;
\* clients connect, make a session and leave, and the daemon is stopped or
\* exits.
InitPaths ==
    /\ \E path \in SocketPaths : \E pids \in SUBSET {PidFile(p) : p \in SocketPaths} :
          Started(path, pids)
    /\ outgoing = <<>>
    /\ encoded = <<>>
    /\ wire = <<>>
    /\ buffer = <<>>
    /\ received = <<>>

NextPaths ==
    \/ Accept
    \/ \E c \in ConnIds, d \in Dims : Identify(c, d)
    \/ \E c \in ConnIds, n \in Names : NewSession(c, n, OneSession)
    \/ \E c \in ConnIds : Teardown(c)
    \/ StopInvoke
    \/ StopServerClosed
    \/ StopAfterSleep
    \/ StopWriterClosed
    \/ atexit_cleanup

SpecPaths == InitPaths /\ [][NextPaths]_vars

\* One session whose shell writes chunks and does not exit; its clients
\* attach, detach and leave, and none kills the session.
NextIdle ==
    \/ Accept
    \/ \E c \in ConnIds, d \in Dims : Identify(c, d)
    \/ \E c \in ConnIds, n \in Names : NewSession(c, n, OneSession)
    \/ \E c \in ConnIds, s \in OneSession : Attach(c, s)
    \/ \E c \in ConnIds : AttachReply(c)
    \/ \E c \in ConnIds : Detach(c)
    \/ \E c \in ConnIds : Teardown(c)
    \/ \E s \in OneSession : PumpRead(s)
    \/ \E s \in OneSession : PumpDrained(s)

SpecIdle == Init /\ [][NextIdle]_vars

\* ------------------------------------------------------------------ claims

\* Frame f is the replay snapshot of session s.
IsSnapshot(f, s) == f.t = "OUTPUT" /\ f.k = "snapshot" /\ f.s = s
\* Frame f is a live chunk of session s.
IsLive(f, s) == f.t = "OUTPUT" /\ f.k = "live" /\ f.s = s
\* Frame f is the SESSION_INFO that answers ATTACH to session s.
IsAttachInfo(f, s) == f.t = "SESSION_INFO" /\ f.k = "attach" /\ f.s = s
\* Frame f is the SESSION_INFO that answers the NEW_SESSION that made s.
IsNewInfo(f, s) == f.t = "SESSION_INFO" /\ f.k = "new" /\ f.s = s /\ f.n = 1
\* The positions before j in c's frames that answer requests.
RepliesBefore(c, j) == {i \in 1 .. (j - 1) : sent[c][i].k \notin PumpKinds}

\* C1: on every connection, a live OUTPUT frame of a session comes after the
\* frame that attached the connection to it: the replay snapshot of ATTACH,
\* which holds fewer chunks than the live frame's number, or the reply to the
\* NEW_SESSION that made the session.  The SESSION_INFO that answers ATTACH
\* comes after the snapshot: the last reply written before it is the
\* snapshot of the same session.
C1_SnapshotFirst ==
    \A c \in DOMAIN sent : \A j \in DOMAIN sent[c] :
        LET f == sent[c][j]
        IN  /\ IsLive(f, f.s) =>
                  \E i \in 1 .. (j - 1) :
                      \/ IsSnapshot(sent[c][i], f.s) /\ sent[c][i].n < f.n
                      \/ IsNewInfo(sent[c][i], f.s)
            /\ IsAttachInfo(f, f.s) =>
                  /\ RepliesBefore(c, j) # {}
                  /\ LET i == CHOOSE x \in RepliesBefore(c, j) :
                                   \A y \in RepliesBefore(c, j) : y <= x
                     IN  IsSnapshot(sent[c][i], f.s)

\* A connection got the snapshot of a session, then a live chunk of it and
\* the SESSION_INFO reply.
C1_Witness ==
    \E c \in DOMAIN sent : \E i, j, k \in DOMAIN sent[c] :
        /\ i < j
        /\ i < k
        /\ IsSnapshot(sent[c][i], sent[c][i].s)
        /\ IsLive(sent[c][j], sent[c][i].s)
        /\ IsAttachInfo(sent[c][k], sent[c][i].s)

\* C2: on every connection the live OUTPUT frames of a session carry rising
\* chunk numbers, the numbers being the order in which the pump read the
\* chunks: a chunk read earlier is delivered earlier and none is delivered
\* twice.
C2_PtyOrder ==
    \A c \in DOMAIN sent : \A i, j \in DOMAIN sent[c] :
        (i < j /\ IsLive(sent[c][i], sent[c][i].s)
               /\ IsLive(sent[c][j], sent[c][i].s))
        => sent[c][i].n < sent[c][j].n

\* Two connections each got the first and the second chunk of a session.
C2_Witness ==
    \E c, d \in DOMAIN sent : \E s \in DOMAIN sessions :
        /\ c # d
        /\ \E i, j \in DOMAIN sent[c] :
              i < j /\ sent[c][i] = LiveOutput(s, 1) /\ sent[c][j] = LiveOutput(s, 2)
        /\ \E i, j \in DOMAIN sent[d] :
              i < j /\ sent[d][i] = LiveOutput(s, 1) /\ sent[d][j] = LiveOutput(s, 2)

\* C3: every connection is in the attachment set of at most one session, and
\* that session is the one recorded as the connection's attached session.
C3_OneAttachment ==
    \A c \in ConnIds :
        LET member == {s \in DOMAIN attached_clients : c \in attached_clients[s]}
        IN  /\ Cardinality(member) <= 1
            /\ \A s \in member :
                  c \in DOMAIN client_sessions /\ client_sessions[c] = s

\* C4: every client id in an attachment set is a key of the client table.
C4_AttachedOpen ==
    \A s \in DOMAIN attached_clients : attached_clients[s] \subseteq clients

\* C5: the `finally` of a connection's handler leaves every session, the
\* name index, the pump tasks and their registration as they are; the
\* attachment sets stay, and only the set of the session recorded for the
\* connection changes, by losing that connection.
C5_DisconnectKeepsSession ==
    [][\A c \in ConnIds :
         Teardown(c) =>
           /\ sessions' = sessions
           /\ sessions_by_name' = sessions_by_name
           /\ pump' = pump
           /\ pty_tasks' = pty_tasks
           /\ DOMAIN attached_clients' = DOMAIN attached_clients
           /\ \A s \in DOMAIN attached_clients :
                 attached_clients'[s] =
                   IF c \in DOMAIN client_sessions /\ client_sessions[c] = s
                   THEN attached_clients[s] \ {c}
                   ELSE attached_clients[s]]_vars

\* The connection that made a session is closed; the session's pump still
\* reads, and another connection has attached to it as its only client.
C5_Witness ==
    \E c, d \in DOMAIN sent : \E s \in DOMAIN sessions :
        /\ handler[c].pc = "closed"
        /\ \E i \in DOMAIN sent[c] : IsNewInfo(sent[c][i], s)
        /\ \E i \in DOMAIN sent[d] :
              IsAttachInfo(sent[d][i], s) /\ sent[d][i].n = 1
        /\ attached_clients[s] = {d}
        /\ pump[s].pc = "read"

\* C6: on every connection, after the SHELL_EXITED the pump broadcast for a
\* session comes no OUTPUT and no SESSION_INFO of that session.
C6_ExitIsLast ==
    \A c \in DOMAIN sent : \A i, j \in DOMAIN sent[c] :
        (i < j /\ sent[c][i] = ShellExited(sent[c][i].s, "exit"))
        => ~(/\ sent[c][j].s = sent[c][i].s
             /\ sent[c][j].t \in {"OUTPUT", "SESSION_INFO"})

\* C7: on a connection that is up, the frame that follows the replay
\* snapshot of a live session is the SESSION_INFO that answers the ATTACH.
C7_InfoFollowsSnapshot ==
    \A c \in DOMAIN sent : \A i \in DOMAIN sent[c] :
        (/\ c \in clients
         /\ handler[c].pc # "closed"
         /\ sent[c][i].s \in DOMAIN sessions
         /\ IsSnapshot(sent[c][i], sent[c][i].s)
         /\ i < Len(sent[c]))
        => IsAttachInfo(sent[c][i + 1], sent[c][i].s)

\* C8: ATTACH to a session whose active pane is dead writes one SHELL_EXITED
\* to the connection and nothing else to any connection, starts no wait of
\* the handler, and leaves the attachment sets and the attached-session
\* records as they are.
C8_AttachDeadPane ==
    [][\A c \in ConnIds, s \in TwoSessions :
         (find_session(s) /\ ActivePane(s).is_dead /\ Attach(c, s)) =>
           /\ sent' = Write(sent, c, ShellExited(s, "attach"))
           /\ handler' = handler
           /\ attached_clients' = attached_clients
           /\ client_sessions' = client_sessions]_vars

\* The last frame of a connection is the SHELL_EXITED that answered its
\* ATTACH, and the connection is not attached to the session.
C8_Witness ==
    \E c \in DOMAIN sent : \E s \in DOMAIN sessions :
        /\ Len(sent[c]) > 0
        /\ sent[c][Len(sent[c])] = ShellExited(s, "attach")
        /\ ActivePane(s).is_dead
        /\ c \notin attached_clients[s]
        /\ c \notin DOMAIN client_sessions

\* A pump that has returned went over its copy of the attachment set:
\* every client of the copy that still has a writer got SHELL_EXITED, and
\* the pane of the session, while it exists, is dead.
C9_Exited ==
    \A s \in DOMAIN pump :
        pump[s].pc = "done" =>
          /\ \A c \in pump[s].client_ids \cap clients :
                \E i \in DOMAIN sent[c] : sent[c][i] = ShellExited(s, "exit")
          /\ s \in DOMAIN sessions => ActivePane(s).is_dead

\* The step on which the read ends marks the pane dead and keeps the
\* session, its name and the listing.
C9_EofStep ==
    \A s \in TwoSessions :
        PumpEof(s) =>
          /\ find_session(s)'
          /\ ActivePane(s)'.is_dead
          /\ list_sessions' = list_sessions
          /\ sessions_by_name' = sessions_by_name

\* A session leaves the registry on a KILL_SESSION for it only.
C9_Kept ==
    \A s \in DOMAIN sessions :
        s \notin DOMAIN sessions' => \E c \in ConnIds : KillSession(c, s)

\* C9: when the read of the PTY ends, the pump marks the pane dead, sends
\* SHELL_EXITED to every client of the attachment set of that moment that
\* has a writer and returns; the session stays in the registry, listed and
\* found, until a KILL_SESSION for it.
C9_EofExit == []C9_Exited /\ [][C9_EofStep /\ C9_Kept]_vars

\* The pump of a session has returned after it told two clients; the
\* session is still in the registry.
C9_Witness ==
    \E s \in DOMAIN sessions :
        /\ s \in DOMAIN pump
        /\ pump[s].pc = "done"
        /\ Cardinality(pump[s].client_ids \cap clients) = 2
        /\ ActivePane(s).is_dead

\* KILL_SESSION for a session of the registry.
C10_KillStep ==
    \A c \in ConnIds, s \in TwoSessions :
        (KillSession(c, s) /\ find_session(s)) =>
          /\ ~find_session(s)'
          /\ \A e \in list_sessions' : e[1] # s
          /\ sessions[s].name \notin DOMAIN sessions_by_name'
          /\ s \notin DOMAIN attached_clients'
          /\ \A x \in attached_clients[s] : x \notin DOMAIN client_sessions'
          /\ s \notin pty_tasks'
          /\ pump'[s].pc \in {"cancelled", "done", "failed"}
          /\ \A o \in (DOMAIN sessions) \ {s} :
                /\ sessions'[o] = sessions[o]
                /\ sessions_by_name'[sessions[o].name] = o
                /\ attached_clients'[o] = attached_clients[o]
                /\ pump'[o] = pump[o]
                /\ o \in pty_tasks' <=> o \in pty_tasks

\* ATTACH to an id the registry does not hold is answered with ERROR.
C10_AttachStep ==
    \A c \in ConnIds, s \in TwoSessions :
        (Attach(c, s) /\ ~find_session(s)) =>
          /\ sent' = Write(sent, c, ErrorFrame("Session not found", s))
          /\ registry' = registry

\* The registry gives out rising ids: a killed id is not held again.
C10_FreshIds == \A s \in DOMAIN sessions : s < next_session_id

\* C10: KILL_SESSION for a session of the registry removes it from the
\* listing, from the lookup by id and by name, removes its attachment set,
\* clears the attached-session record of its clients, cancels and
\* unregisters its pump, and leaves every other session, attachment set and
\* pump as it is; its id is not held again, and ATTACH to an id that is not
\* held is answered with ERROR.
C10_KillSession == []C10_FreshIds /\ [][C10_KillStep /\ C10_AttachStep]_vars

\* Session 0 was killed, and a later ATTACH to it was answered with ERROR.
C10_Witness ==
    \E c \in DOMAIN sent :
        /\ 0 < next_session_id
        /\ ~find_session(0)
        /\ pump[0].pc = "cancelled"
        /\ Len(sent[c]) > 0
        /\ sent[c][Len(sent[c])] = ErrorFrame("Session not found", 0)
        /\ handler[c].pc = "err_drain"

\* C11: once stop() has been invoked the shutdown sequence is never given up:
\* it does not end in an exception before every writer is closed, the socket
\* file removed and the shutdown event set.
C11_ShutdownCompletes ==
    stop_task.pc # "raised"

\* C12: on the step that sets the shutdown event, no session is left in the
\* registry and no pump is registered or reading.
C12_NothingLeft ==
    [][(~shutdown_event /\ shutdown_event') =>
          /\ sessions' = EmptyDict
          /\ pty_tasks' = {}
          /\ \A s \in DOMAIN pump' : pump'[s].pc # "reading"]_vars

\* The handling of a message of connection c raises on this step.
C13_Raised(c) ==
    /\ handler[c].pc \in {"idle", "attach_drain"}
    /\ handler'[c].pc = "err_drain"

\* Connection c, whose handler has raised, is closed on this step.
C13_Closed(c) ==
    /\ handler[c].pc = "err_drain"
    /\ handler'[c].pc = "closed"

\* The step leaves the daemon accepting, every session and its pump as they
\* are, and every connection other than c with its attachment as it is.
C13_OthersKept(c) ==
    /\ serving' = serving
    /\ sessions' = sessions
    /\ sessions_by_name' = sessions_by_name
    /\ DOMAIN attached_clients' = DOMAIN attached_clients
    /\ \A s \in DOMAIN sessions :
          /\ (s \in pty_tasks') = (s \in pty_tasks)
          /\ s \in DOMAIN pump => pump'[s] = pump[s]
    /\ \A d \in (DOMAIN handler) \ {c} :
          /\ handler'[d] = handler[d]
          /\ sent'[d] = sent[d]
          /\ (d \in clients') = (d \in clients)
          /\ (d \in writers_closed') = (d \in writers_closed)
          /\ (d \in DOMAIN client_sessions') = (d \in DOMAIN client_sessions)
          /\ d \in DOMAIN client_sessions => client_sessions'[d] = client_sessions[d]
          /\ \A s \in DOMAIN attached_clients :
                (d \in attached_clients'[s]) = (d \in attached_clients[s])

C14_IndexesAgree ==
    /\ \A e \in list_sessions :
          /\ find_session(e[1])
          /\ sessions[e[1]].id = e[1]
          /\ e[2] \in DOMAIN sessions_by_name
          /\ sessions_by_name[e[2]] = e[1]
    /\ \A n \in DOMAIN sessions_by_name :
          /\ find_session(sessions_by_name[n])
          /\ sessions[sessions_by_name[n]].name = n
    /\ DOMAIN attached_clients = DOMAIN sessions

\* Two ids were taken by sessions that are gone or were never made (a spawn
\* that failed); the one session listed has the third id, two panes and an
\* attached client.
C14_Witness ==
    \E s \in DOMAIN sessions :
        /\ s = 2
        /\ DOMAIN sessions = {s}
        /\ sessions[s].name = "main"
        /\ Cardinality(DOMAIN sessions[s].panes) = 2
        /\ attached_clients[s] # {}
        /\ next_session_id = 3

\* The ids of the panes of all sessions.
C15_PaneIds == UNION {DOMAIN sessions[s].panes : s \in DOMAIN sessions}

\* Every id in use was given out before: it is below its counter.
C15_Below ==
    /\ \A s \in DOMAIN sessions : s < next_session_id /\ sessions[s].id = s
    /\ \A p \in C15_PaneIds : p < next_pane_id
    /\ \A s \in DOMAIN sessions : \A p \in DOMAIN sessions[s].panes :
          sessions[s].panes[p].id = p
    /\ \A s, t \in DOMAIN sessions :
          s # t => DOMAIN sessions[s].panes \cap DOMAIN sessions[t].panes = {}
    /\ \A c \in DOMAIN handler : c < next_client_id

\* A step gives a new session, pane or connection the value of its counter
\* and moves the counter past it; no counter ever goes down.
C15_Step ==
    /\ next_session_id' >= next_session_id
    /\ next_pane_id' >= next_pane_id
    /\ next_client_id' >= next_client_id
    /\ \A s \in (DOMAIN sessions') \ (DOMAIN sessions) :
          s = next_session_id /\ next_session_id' = s + 1
    /\ \A p \in (C15_PaneIds') \ C15_PaneIds :
          p = next_pane_id /\ next_pane_id' = p + 1
    /\ \A c \in (DOMAIN handler') \ (DOMAIN handler) :
          c = next_client_id /\ next_client_id' = c + 1

\* C15: session ids, pane ids and connection ids are given out in strictly
\* increasing order and none is given out twice, whatever was destroyed or
\* closed before.
C15_IdsIncrease ==
    []C15_Below /\ [][C15_Step]_vars

\* Session id 0 is not in use, pane 1 is destroyed and connection 0 is
\* closed; session 1 holds panes 2 and 3 and connection 1 is open.
C15_Witness ==
    /\ DOMAIN sessions = {1}
    /\ DOMAIN sessions[1].panes = {2, 3}
    /\ next_pane_id = 4
    /\ DOMAIN handler = {0, 1}
    /\ handler[0].pc = "closed"
    /\ handler[1].pc = "idle"

\* The names of the sessions of the by-id index.
C16_Names == {sessions[s].name : s \in DOMAIN sessions}

\* Connection c is answered with the name-in-use ERROR on this step.
C16_Refused(c) ==
    /\ handler[c].pc = "idle"
    /\ handler'[c].pc = "err_drain"
    /\ sent'[c] = Append(sent[c], ErrorFrame("Session with name already exists", 0))

\* C16: no two sessions have the same name and a step that makes a session
\* gives it a name no session had; the NEW_SESSION that is refused because
\* its name is in use is answered with an ERROR frame and changes neither
\* the registry (sessions, panes, both id counters) nor the pumps nor any
\* attachment record.
C16_DuplicateName ==
    /\ [](\A s, t \in DOMAIN sessions :
             sessions[s].name = sessions[t].name => s = t)
    /\ [][/\ \A s \in (DOMAIN sessions') \ (DOMAIN sessions) :
                sessions'[s].name \notin C16_Names
                    /\ sessions'[s].name \notin DOMAIN sessions_by_name
          /\ \A c \in DOMAIN handler :
                C16_Refused(c) =>
                    /\ UNCHANGED registry
                    /\ UNCHANGED <<pty_tasks, pump, client_sessions, clients>>]_vars

\* A client asked for a session named "w" while the session it made under
\* that name was there: it got the ERROR, and one session id and one pane id
\* are taken.
C16_Witness ==
    \E c \in DOMAIN handler :
        /\ handler[c].pc = "err_drain"
        /\ Len(sent[c]) = 2
        /\ sent[c][2] = ErrorFrame("Session with name already exists", 0)
        /\ sent[c][1].t = "SESSION_INFO"
        /\ sent[c][1].name = "w"
        /\ C16_Names = {"w"}
        /\ next_session_id = 1
        /\ next_pane_id = 1

\* Connection c has sent IDENTIFY and its NEW_SESSION for name n (the
\* default name when n is empty) can be handled: the name is not in use.
C17_Ready(c, n) ==
    /\ CanDispatch(c)
    /\ MaySend
    /\ next_session_id \in OneSession
    /\ c \in DOMAIN client_dimensions
    /\ n \notin DOMAIN sessions_by_name

\* This step makes one session for connection c, named n (the default name
\* when n is empty), with one pane of the size c declared; c is its one
\* attached client, its pump reads, and c is sent one SESSION_INFO with the
\* session's id and name, the pane's size and the count 1.
C17_Made(c, n) ==
    \E s \in (DOMAIN sessions') \ (DOMAIN sessions) :
        LET session == sessions'[s]
            p == session.active_pane_id
            d == client_dimensions[c]
        IN  /\ DOMAIN sessions' = (DOMAIN sessions) \cup {s}
            /\ \A t \in DOMAIN sessions : sessions'[t] = sessions[t]
            /\ session.id = s
            /\ session.name = IF n = "" THEN DefaultName ELSE n
            /\ sessions_by_name'[session.name] = s
            /\ DOMAIN session.panes = {p}
            /\ session.panes[p].width = d[1]
            /\ session.panes[p].height = d[2]
            /\ session.panes[p].winsize = d
            /\ session.panes[p].screen = d
            /\ ~session.panes[p].is_dead
            /\ attached_clients'[s] = {c}
            /\ client_sessions'[c] = s
            /\ s \in pty_tasks'
            /\ pump'[s].pc = "read"
            /\ \A x \in (DOMAIN sent) \ {c} : sent'[x] = sent[x]
            /\ Len(sent'[c]) = Len(sent[c]) + 1
            /\ SubSeq(sent'[c], 1, Len(sent[c])) = sent[c]
            /\ LET f == sent'[c][Len(sent'[c])]
               IN  /\ f.t = "SESSION_INFO"
                   /\ f.s = s
                   /\ f.name = session.name
                   /\ f.pane_id = p
                   /\ f.width = d[1]
                   /\ f.height = d[2]
                   /\ f.n = 1

C18_Rejected(c) ==
    /\ Len(sent'[c]) = Len(sent[c]) + 1
    /\ SubSeq(sent'[c], 1, Len(sent[c])) = sent[c]
    /\ sent'[c][Len(sent'[c])].t = "ERROR"
    /\ UNCHANGED registry
    /\ UNCHANGED <<client_sessions, pty_tasks, pump>>

\* C18: a NEW_SESSION of a connection that has sent no IDENTIFY, whatever
\* name it asks for, is handled in one way only: an ERROR frame to that
\* connection, and no session, pane, attachment or pump is made and no
\* session or pane id is taken.
C18_NeedsIdentify ==
    \A c \in ConnIds : \A n \in Names :
        (CanDispatch(c) /\ MaySend /\ c \notin DOMAIN client_dimensions) =>
            /\ ENABLED NewSession(c, n, TwoSessions)
            /\ ~ENABLED (NewSession(c, n, TwoSessions) /\ ~C18_Rejected(c))

\* A connection that sent no IDENTIFY asked for a session and got the
\* ERROR; the one session there is was made by the other connection, and
\* one session id and one pane id are taken.
C18_Witness ==
    \E c, d \in DOMAIN handler :
        /\ c # d
        /\ c \notin DOMAIN client_dimensions
        /\ sent[c] = <<ErrorFrame("Client must send IDENTIFY before NEW_SESSION", 0)>>
        /\ DOMAIN sessions = {0}
        /\ attached_clients[0] = {d}
        /\ pty_tasks = {0}
        /\ next_session_id = 1
        /\ next_pane_id = 1

\* The names of the listed sessions.
C19_Existing == {e[2] : e \in list_sessions}

\* `main` when there is no session, else `session-<n>` for the smallest
\* n >= 1 such that no session is named `session-<n>`.
C19_Expected ==
    IF list_sessions = {} THEN "main"
    ELSE SessionN(CHOOSE n \in 1 .. 6 :
                     /\ SessionN(n) \notin C19_Existing
                     /\ \A m \in 1 .. (n - 1) : SessionN(m) \in C19_Existing)

\* This step makes a session with the expected default name.
C19_Named ==
    \E s \in (DOMAIN sessions') \ (DOMAIN sessions) :
        /\ sessions'[s].name = C19_Expected
        /\ sessions_by_name'[C19_Expected] = s

\* C19: the default name is `main` when no session exists and otherwise
\* `session-<n>` for the smallest n >= 1 not in use; it is the name of no
\* session, and a NEW_SESSION with an empty name from a connection that
\* has sent IDENTIFY makes a session of that name: it never fails because
\* the name is in use.
C19_DefaultName ==
    /\ DefaultName = C19_Expected
    /\ DefaultName \notin C19_Existing
    /\ DefaultName \notin DOMAIN sessions_by_name
    /\ \A c \in ConnIds :
          (/\ CanDispatch(c)
           /\ MaySend
           /\ c \in DOMAIN client_dimensions
           /\ next_session_id \in RegSessions) =>
              /\ ENABLED NewSession(c, "", RegSessions)
              /\ ~ENABLED (NewSession(c, "", RegSessions) /\ ~C19_Named)

\* Sessions `session-1` and `session-2` were there when a client asked for
\* a session without a name: it was named `session-3`.
C19_Witness ==
    \E c \in DOMAIN sent :
        /\ Len(sent[c]) > 0
        /\ sent[c][Len(sent[c])].t = "SESSION_INFO"
        /\ sent[c][Len(sent[c])].name = "session-3"
        /\ C19_Existing = {"session-1", "session-2", "session-3"}

\* Connection c has no current attachment: it has no attachment record, or
\* the session of its record is not in the registry.
C20_Unattached(c) ==
    \/ c \notin DOMAIN client_sessions
    \/ ~find_session(client_sessions[c])

\* This step answers connection c with one ERROR frame; no pane changes and
\* nothing is written to a PTY.
C20_Refused(c) ==
    /\ Len(sent'[c]) = Len(sent[c]) + 1
    /\ SubSeq(sent'[c], 1, Len(sent[c])) = sent[c]
    /\ sent'[c][Len(sent'[c])].t = "ERROR"
    /\ sessions' = sessions

\* C20: an INPUT or a RESIZE of a connection without current attachment is
\* handled in one way only: an ERROR frame to that connection, with every
\* pane (its size, its screen, its PTY's window size and what was written
\* to its PTY) as before.
C20_NeedsAttachment ==
    \A c \in ConnIds :
        (CanDispatch(c) /\ C20_Unattached(c)) =>
            /\ \A fails \in BOOLEAN :
                  ~ENABLED (Input(c, fails) /\ ~C20_Refused(c))
            /\ ENABLED Input(c, FALSE)
            /\ \A d \in Sizes :
                  /\ ENABLED Resize(c, d, FALSE)
                  /\ \A fails \in BOOLEAN :
                        ~ENABLED (Resize(c, d, fails) /\ ~C20_Refused(c))

\* The session a client made was killed, which took the client's attachment
\* record away; the client then sent INPUT or RESIZE and got the ERROR as
\* its last frame.
C20_Witness ==
    \E c \in DOMAIN handler :
        /\ Len(sent[c]) = 2
        /\ sent[c][1].t = "SESSION_INFO"
        /\ sent[c][2] = ErrorFrame("Client not attached to any session", 0)
        /\ DOMAIN sessions = {}
        /\ next_session_id = 1
        /\ handler[c].pc = "err_drain"

\* C21: the bytes a pane's PTY has accepted are the bytes the INPUT frames
\* offered to it, all of them and in order: nothing an INPUT carried is
\* left out without an error.
C21_NoInputLost ==
    \A s \in DOMAIN sessions : \A p \in DOMAIN sessions[s].panes :
        LET pane == sessions[s].panes[p]
        IN  pane.written = [i \in 1 .. pane.offered |-> i]

\* C22: for every pane the recorded width and height, the emulator's screen
\* size and the window size of the PTY are the same size (that of the last
\* RESIZE that succeeded, or the size the pane was made with); a RESIZE
\* whose ioctl fails changes none of them.
C22_SizesAgree ==
    \A s \in DOMAIN sessions : \A p \in DOMAIN sessions[s].panes :
        LET pane == sessions[s].panes[p]
        IN  /\ pane.screen = <<pane.width, pane.height>>
            /\ pane.winsize = <<pane.width, pane.height>>

\* C23: every pane is at least MIN_TERMINAL_WIDTH columns by
\* MIN_TERMINAL_HEIGHT rows, whatever sizes clients send in IDENTIFY and
\* RESIZE.
C23_MinimumSize ==
    \A s \in DOMAIN sessions : \A p \in DOMAIN sessions[s].panes :
        LET pane == sessions[s].panes[p]
        IN  /\ pane.width >= MIN_TERMINAL_WIDTH
            /\ pane.height >= MIN_TERMINAL_HEIGHT
            /\ pane.screen[1] >= MIN_TERMINAL_WIDTH
            /\ pane.screen[2] >= MIN_TERMINAL_HEIGHT

\* This step takes connection c out of the attachment set of the session
\* of its record and clears the record; it writes no frame, keeps the
\* connection open and changes nothing else.
C24_Detached(c) ==
    LET s == client_sessions[c]
    IN  /\ DOMAIN attached_clients' = DOMAIN attached_clients
        /\ attached_clients'[s] = attached_clients[s] \ {c}
        /\ \A t \in (DOMAIN attached_clients) \ {s} :
              attached_clients'[t] = attached_clients[t]
        /\ DOMAIN client_sessions' = (DOMAIN client_sessions) \ {c}
        /\ \A d \in DOMAIN client_sessions' :
              client_sessions'[d] = client_sessions[d]
        /\ UNCHANGED <<sent, handler, clients, writers_closed, sessions,
                       sessions_by_name, next_session_id, next_pane_id,
                       pty_tasks, pump, client_dimensions>>

\* C24: a DETACH of a connection attached to a session has one outcome:
\* the connection leaves that session's attachment set, its record is
\* cleared, nothing is sent, the connection stays open and the session and
\* the other clients' attachments stay; a DETACH of a connection without
\* record changes nothing at all.
C24_Detach ==
    \A c \in ConnIds :
        CanDispatch(c) =>
            IF c \in DOMAIN client_sessions
            THEN client_sessions[c] \in DOMAIN attached_clients =>
                    /\ c \in attached_clients[client_sessions[c]]
                    /\ ENABLED Detach(c)
                    /\ ~ENABLED (Detach(c) /\ ~C24_Detached(c))
            ELSE /\ ENABLED Detach(c)
                 /\ ~ENABLED (Detach(c) /\ ~UNCHANGED vars)

\* Two clients were attached to session 0 and one of them has detached: it
\* is out of the set and without record, still open, and has got nothing
\* after the reply to its ATTACH; the other client is still attached.
C24_Witness ==
    \E c, d \in DOMAIN handler :
        /\ c # d
        /\ 0 \in DOMAIN attached_clients
        /\ attached_clients[0] = {d}
        /\ client_sessions = (d :> 0)
        /\ CanDispatch(c)
        /\ Len(sent[c]) = 2
        /\ IsAttachInfo(sent[c][2], 0)
        /\ sent[c][2].n = 2

\* This step answers connection c with one ERROR frame and leaves the
\* registry, every attachment set, every attachment record and every pump
\* as they are.
C25_Refused(c) ==
    /\ Len(sent'[c]) = Len(sent[c]) + 1
    /\ SubSeq(sent'[c], 1, Len(sent[c])) = sent[c]
    /\ sent'[c][Len(sent'[c])].t = "ERROR"
    /\ \A d \in (DOMAIN sent) \ {c} : sent'[d] = sent[d]
    /\ UNCHANGED registry
    /\ UNCHANGED <<client_sessions, pty_tasks, pump>>

C26_Attached(s) ==
    {d \in DOMAIN handler :
        /\ handler[d].pc # "closed"
        /\ d \in DOMAIN client_sessions
        /\ client_sessions[d] = s}

\* This step appends to connection c's stream one SESSION_INFO per session,
\* each with the session's id and name, its active pane's id, pid and size
\* and the number of connections attached to it, and changes nothing else.
C26_Listed(c) ==
    LET old == Len(sent[c])
        new == Len(sent'[c])
    IN  /\ new = old + Cardinality(DOMAIN sessions)
        /\ SubSeq(sent'[c], 1, old) = sent[c]
        /\ \A s \in DOMAIN sessions :
             \E i \in (old + 1) .. new :
                 LET f == sent'[c][i]
                     pane == sessions[s].panes[sessions[s].active_pane_id]
                 IN  /\ f.t = "SESSION_INFO"
                     /\ f.s = s
                     /\ f.name = sessions[s].name
                     /\ f.pane_id = pane.id
                     /\ f.pid = pane.pid
                     /\ f.width = pane.width
                     /\ f.height = pane.height
                     /\ f.n = Cardinality(C26_Attached(s))
        /\ \A d \in (DOMAIN sent) \ {c} : sent'[d] = sent[d]
        /\ UNCHANGED <<registry, next_client_id, clients, client_dimensions,
                       client_sessions, pty_tasks, pump, handler,
                       writers_closed, daemon>>

\* C26: LIST_SESSIONS is answered with exactly one SESSION_INFO per session
\* (none when there is no session), each with the session's id and name,
\* its active pane's id, pid and size and a count equal to the number of
\* connections attached to the session then; nothing else changes.
C26_ListSessions ==
    \A c \in ConnIds :
        (CanDispatch(c) /\ Listed + Cardinality(DOMAIN sessions) <= MaxListed) =>
            /\ ENABLED ListSessions(c)
            /\ ~ENABLED (ListSessions(c) /\ ~C26_Listed(c))

\* C27: a message of any type, encoded whole and decoded from the frame in
\* one piece, comes back as the same type and payload with nothing left in
\* the buffer, and the decoder of its type gives back the field values.
C27_RoundTrip ==
    (Len(encoded) = 1 /\ encoded[1].whole /\ wire = <<>>) =>
        /\ received = <<[message |-> encode_message(encoded[1].value),
                         fields |-> Ok(encoded[1].value.fields)]>>
        /\ received[1].message.msg_type = encoded[1].value.msg_type
        /\ buffer = <<>>

\* A SESSION_INFO with the largest ids, a name that is not ASCII and the
\* width 65535 was encoded whole and has come back with the same fields.
C27_Witness ==
    /\ Len(encoded) = 1
    /\ encoded[1].whole
    /\ encoded[1].value.msg_type = "SESSION_INFO"
    /\ encoded[1].value.fields[1] = <<65535, 65535>>
    /\ encoded[1].value.fields[2] = <<8364, 119>>
    /\ encoded[1].value.fields[5] = 65535
    /\ wire = <<>>
    /\ buffer = <<>>
    /\ Len(received) = 1
    /\ received[1].fields = Ok(encoded[1].value.fields)

\* All the bytes the peer has written, in order.
C28_Stream ==
    LET s[i \in 0 .. Len(encoded)] ==
            IF i = 0 THEN <<>> ELSE s[i - 1] \o encoded[i].frame
    IN  s[Len(encoded)]

\* The bytes the reader has read so far.
C28_Read == SubSeq(C28_Stream, 1, Len(C28_Stream) - Len(wire))

\* decode(data) is what is said of it: "incomplete" and data itself when
\* data has fewer than 8 bytes or fewer than 8 plus the payload length of
\* its header; otherwise a message and a remainder that, the message
\* encoded again and put in front, are data (or an exception, and then the
\* type number of the header is no MessageType's).
C28_AsSaid(data) ==
    LET r == decode(data)
        msg_type_int == unpack_I(SubSeq(data, 1, 4))
        payload_len == unpack_I(SubSeq(data, 5, 8))
    IN  IF \/ Len(data) < 8
           \/ payload_len[1] > 0
           \/ Len(data) < 8 + payload_len[2]
        THEN r = Ok([message |-> None, remaining |-> data])
        ELSE IF HasRaised(r) THEN msg_type_int \notin {<<0, i>> : i \in 0 .. 11}
        ELSE /\ r.value.message # None
             /\ Len(r.value.message.payload) = payload_len[2]
             /\ Message_encode(r.value.message) \o r.value.remaining = data

\* C28: on every piece of the stream decode is "incomplete" with the buffer
\* unchanged when fewer than 8, or fewer than 8 + payload length, bytes are
\* there, and otherwise takes exactly the first frame and leaves the rest;
\* and the reader that gets the stream in pieces cut anywhere has, at every
\* moment, the messages and the buffer that decoding the bytes read so far
\* in one piece gives.
C28_Streaming ==
    /\ LET stream == C28_Stream
       IN  \A i \in 0 .. Len(stream) : \A j \in i .. Len(stream) :
               C28_AsSaid(Slice(stream, i, j))
    /\ [buffer |-> buffer, received |-> received] = decode_loop(C28_Read, <<>>)

\* Two frames were written; the reader has the first message and three
\* bytes of the second frame's header in its buffer, and the rest of that
\* frame has not been read yet.
C28_Witness ==
    /\ Len(encoded) = 2
    /\ encoded[1].whole /\ encoded[2].whole
    /\ Len(received) = 1
    /\ received[1].message = encode_message(encoded[1].value)
    /\ Len(buffer) = 3
    /\ Len(wire) = Len(encoded[2].frame) - 3

\* data has a header, and its type number is no MessageType's.
C29_Unknown(data) ==
    /\ Len(data) >= HEADER_SIZE
    /\ unpack_I(SubSeq(data, 1, 4)) \notin {<<0, i>> : i \in 0 .. 11}

\* data holds all the payload bytes its header declares.
C29_Complete(data) ==
    LET payload_len == unpack_I(SubSeq(data, 5, 8))
    IN  payload_len[1] = 0 /\ Len(data) >= HEADER_SIZE + payload_len[2]

\* C29 as stated: whenever the reader's buffer has 8 bytes or more and the
\* type number of the header is unknown, decode has raised and the read
\* loop has ended, however many payload bytes are there.
C29_AlwaysLoud ==
    C29_Unknown(buffer) => HasRaised(decode(buffer)) /\ LoopFailed

\* C29, as the code has it: a buffer whose header has an unknown type number
\* makes decode raise ValueError once all the payload the header declares
\* is there, and until then decode returns "incomplete" and the buffer;
\* no message is ever returned for such a frame, so the messages received
\* are those of the frames of known type written before it.
C29_LoudWhenComplete ==
    /\ C29_Unknown(buffer) =>
          IF C29_Complete(buffer)
          THEN /\ decode(buffer) = Raised("ValueError")
               /\ received # <<>>
               /\ received[Len(received)] = Raised("ValueError")
          ELSE /\ decode(buffer) = Ok([message |-> None, remaining |-> buffer])
               /\ ~LoopFailed
    /\ \A i \in 1 .. Len(received) :
          ~HasRaised(received[i]) =>
              /\ encoded[i].value # None
              /\ received[i].message = encode_message(encoded[i].value)

\* After a frame of a known type the peer wrote a frame of type number
\* 2^32 - 1 with two bytes of payload; the reader got the first message
\* and, with the whole second frame in its buffer, ValueError.
C29_Witness ==
    /\ Len(encoded) = 2
    /\ encoded[1].value # None
    /\ encoded[2].value = None
    /\ SubSeq(encoded[2].frame, 1, 4) = <<255, 255, 255, 255>>
    /\ buffer = encoded[2].frame
    /\ Len(buffer) = 10
    /\ Len(received) = 2
    /\ received[1].message = encode_message(encoded[1].value)
    /\ received[2] = Raised("ValueError")

\* C30: when a frame was written with its payload cut short and the reader
\* has decoded it, the decoder of its type has raised an error: no payload
\* with bytes missing is decoded to field values.
C30_TruncatedFails ==
    \A i \in 1 .. Len(received) :
        (~encoded[i].whole /\ encoded[i].value.msg_type \notin {"INPUT", "OUTPUT"})
            => HasRaised(received[i].fields)

\* C31: every session has a pane and its active_pane_id is a key of its
\* panes, whatever panes were created and destroyed; and destroy_pane of a
\* session's only pane is refused: it changes nothing.
C31_ActivePane ==
    /\ \A s \in DOMAIN sessions :
          /\ DOMAIN sessions[s].panes # {}
          /\ sessions[s].active_pane_id \in DOMAIN sessions[s].panes
    /\ \A s \in RegSessions : \A p \in RegPanes :
          (s \in DOMAIN sessions /\ DOMAIN sessions[s].panes = {p}) =>
              /\ ENABLED DestroyPane(s, p)
              /\ ~ENABLED (DestroyPane(s, p) /\ ~UNCHANGED vars)

\* Session 0 was made with pane 0, got pane 1 and lost pane 0: pane 1 is its
\* only pane and the active one.
C31_Witness ==
    /\ 0 \in DOMAIN sessions
    /\ DOMAIN sessions[0].panes = {1}
    /\ sessions[0].active_pane_id = 1
    /\ next_pane_id = 2

\* This step takes pane p out of session s and makes the remaining pane of
\* the lowest id the active one if p was active, and leaves the active pane
\* as it was if not.
C32_Promoted(s, p) ==
    /\ DOMAIN sessions'[s].panes = DOMAIN sessions[s].panes \ {p}
    /\ sessions'[s].active_pane_id =
          IF sessions[s].active_pane_id = p
          THEN Min(DOMAIN sessions[s].panes \ {p})
          ELSE sessions[s].active_pane_id

\* C32: destroy_pane of a pane of a session that has others takes it out;
\* if it was the active pane the remaining pane of the lowest id becomes
\* active, and if not the active pane stays.
C32_LowestPromoted ==
    \A s \in RegSessions : \A p \in RegPanes :
        (/\ s \in DOMAIN sessions
         /\ p \in DOMAIN sessions[s].panes
         /\ Cardinality(DOMAIN sessions[s].panes) > 1) =>
            /\ ENABLED DestroyPane(s, p)
            /\ ~ENABLED (DestroyPane(s, p) /\ ~C32_Promoted(s, p))

\* Session 0 was made with pane 0 and got panes 1 and 2; pane 0, the active
\* one, was destroyed and pane 1, not pane 2, is active.
C32_Witness ==
    /\ 0 \in DOMAIN sessions
    /\ DOMAIN sessions[0].panes = {1, 2}
    /\ sessions[0].pane_keys = <<1, 2>>
    /\ sessions[0].active_pane_id = 1
    /\ next_pane_id = 3

\* The chunks of session s whose broadcast has gone past connection c: all
\* that were fed, but the last one while the pump's loop has not come to c.
C33_Passed(c, s) ==
    IF s \in DOMAIN pump /\ pump[s].pc = "send" /\ c \in pump[s].todo
    THEN ActivePane(s).fed - 1
    ELSE ActivePane(s).fed

\* C33: a connection that got the snapshot of a live session gets, after the
\* snapshot, no live frame of a chunk the snapshot holds, and while it is
\* attached and has its writer it has got, after its last snapshot, a live
\* frame of every later chunk whose broadcast has gone past it.
C33_ExactlyOnce ==
    \A c \in DOMAIN sent : \A i \in DOMAIN sent[c] :
        LET f == sent[c][i]
            s == f.s
            last == \A j \in DOMAIN sent[c] : j > i => ~IsSnapshot(sent[c][j], s)
        IN  IsSnapshot(f, s) =>
              /\ \A j \in DOMAIN sent[c] :
                    (j > i /\ IsLive(sent[c][j], s)) => sent[c][j].n > f.n
              /\ (/\ last
                  /\ find_session(s)
                  /\ c \in get_attached_clients(s)
                  /\ c \in clients
                  /\ c \notin writers_closed) =>
                    \A m \in (f.n + 1) .. C33_Passed(c, s) :
                        \E j \in DOMAIN sent[c] :
                            j > i /\ sent[c][j] = LiveOutput(s, m)

\* C34: a connection whose handler has ended is in no attachment set, not in
\* the client table, not in the table of declared dimensions, has no
\* attached-session record, and its writer is closed.
C34_TeardownCompletes ==
    \A c \in DOMAIN handler :
        handler[c] = Closed =>
            /\ \A s \in DOMAIN attached_clients : c \notin attached_clients[s]
            /\ c \notin DOMAIN client_sessions
            /\ c \notin clients
            /\ c \notin DOMAIN client_dimensions
            /\ c \in writers_closed

\* C35: every step that writes a live OUTPUT or a broadcast SHELL_EXITED
\* frame of a session to a connection finds that connection in the
\* session's attachment set.
C35_OnlyWhileAttached ==
    [][\A c \in DOMAIN sent :
          (/\ c \in DOMAIN sent'
           /\ Len(sent'[c]) > Len(sent[c])
           /\ sent'[c][Len(sent'[c])].k \in PumpKinds) =>
              LET s == sent'[c][Len(sent'[c])].s
              IN  /\ s \in DOMAIN attached_clients
                  /\ c \in attached_clients[s]]_vars

\* C36: a pump task is registered only under the id of a session of the
\* registry, and a pump task that runs (it waits for the PTY or in a drain)
\* is the one registered under its session's id.
C36_OnePump ==
    /\ pty_tasks \subseteq DOMAIN sessions
    /\ \A s \in DOMAIN pump :
          pump[s].pc \in {"read", "send", "exit"} =>
              s \in pty_tasks /\ s \in DOMAIN sessions

\* The drain of session s's pump, which broadcasts a chunk, raised: the
\* client it wrote to is no longer in the client table.
C37_WriteFailed(s) ==
    /\ PumpDrained(s)
    /\ pump[s].pc = "send"
    /\ clients' # clients

\* After a failed write the pump of s has taken the client out of s's
\* attachment set, and goes on: it writes the chunk to the next client of its
\* copy that has a writer and waits for it, or with none left reads again.
C37_CarriesOn(s) ==
    LET c == CHOOSE x \in pump[s].cur : TRUE
        rest == (pump[s].todo \cap clients) \ {c}
    IN  /\ c \notin attached_clients'[s]
        /\ sessions' = sessions
        /\ pty_tasks' = pty_tasks
        /\ IF rest = {}
           THEN /\ pump'[s] = Reading
                /\ sent' = sent
           ELSE /\ pump'[s].pc = "send"
                /\ pump'[s].cur = {Min(rest)}
                /\ sent' = Write(sent, Min(rest), LiveOutput(s, pump[s].data))

\* No client of the pump's copy that has a writer was passed over: it has
\* got the chunk the pump broadcasts unless the loop has yet to come to it.
C37_NonePassedOver ==
    \A s \in DOMAIN pump :
        pump[s].pc = "send" =>
            \A d \in (pump[s].client_ids \cap clients) \ pump[s].todo :
                \E j \in DOMAIN sent[d] : sent[d][j] = LiveOutput(s, pump[s].data)

\* C37: a failed write of an OUTPUT frame takes that client out of the
\* session's attachment set and does not end the pump, which writes the
\* chunk to the clients that remain and reads on.
C37_FailedWrite ==
    /\ []C37_NonePassedOver
    /\ [][\A s \in TwoSessions : C37_WriteFailed(s) => C37_CarriesOn(s)]_vars

\* The chunks fed to the emulator of session s's active pane after the step.
C38_FedAfter(s) == sessions'[s].panes[sessions[s].active_pane_id].fed

\* This step feeds one chunk to the emulator of session s and, with no
\* client attached, writes nothing and leaves the pump reading.
C38_FedOne(s) ==
    /\ C38_FedAfter(s) = ActivePane(s).fed + 1
    /\ get_attached_clients(s) = {} => (pump'[s] = Reading /\ sent' = sent)

\* Every live frame is of a chunk that was fed, and a pump that waits for
\* the PTY can read the next chunk whoever is attached, and every such read
\* feeds the chunk.
C38_Fed ==
    /\ \A c \in DOMAIN sent : \A j \in DOMAIN sent[c] :
          LET f == sent[c][j]
          IN  (IsLive(f, f.s) /\ find_session(f.s)) => f.n <= ActivePane(f.s).fed
    /\ \A s \in DOMAIN pump :
          (/\ find_session(s)
           /\ pump[s].pc = "read"
           /\ ActivePane(s).fed < MaxChunks) =>
              /\ ENABLED PumpRead(s)
              /\ ~ENABLED (PumpRead(s) /\ ~C38_FedOne(s))

\* DETACH and the end of a connection leave the pumps as they are.
C38_PumpGoesOn ==
    \A c \in ConnIds :
        ~ENABLED ((Detach(c) \/ Teardown(c)) /\ pump' # pump)

\* The snapshot of ATTACH holds every chunk fed so far.
C38_Snapshot ==
    \A c \in ConnIds, s \in OneSession :
        (find_session(s) /\ ~ActivePane(s).is_dead) =>
            ~ENABLED (/\ Attach(c, s)
                      /\ sent' # Write(sent, c, SnapshotOutput(s, ActivePane(s).fed)))

\* C38: the pump feeds every chunk it reads to the emulator before it
\* broadcasts it, also with no client attached; it goes on when clients
\* detach or disconnect, and the snapshot of a later ATTACH holds the
\* chunks read meanwhile.
C38_FeedsAlways == C38_Fed /\ C38_PumpGoesOn /\ C38_Snapshot

\* A connection got a snapshot that holds a chunk, and no connection ever
\* got a live frame: the chunk was read while no client was attached.
C38_Witness ==
    /\ \E c \in DOMAIN sent : \E i \in DOMAIN sent[c] :
          IsSnapshot(sent[c][i], 0) /\ sent[c][i].n >= 1
    /\ \A c \in DOMAIN sent : \A j \in DOMAIN sent[c] : sent[c][j].k # "live"

\* C39: on the connection whose NEW_SESSION made a session, the
\* SESSION_INFO that answers it is the first frame about that session.
C39_InfoFirst ==
    \A c \in DOMAIN sent : \A i \in DOMAIN sent[c] :
        IsNewInfo(sent[c][i], sent[c][i].s) =>
            \A j \in 1 .. (i - 1) : sent[c][j].s # sent[c][i].s

\* A connection made session 0 and got its SESSION_INFO and then a live
\* chunk from the session's pump.
C39_Witness ==
    \E c \in DOMAIN sent : \E i, j \in DOMAIN sent[c] :
        /\ i < j
        /\ IsNewInfo(sent[c][i], 0)
        /\ IsLive(sent[c][j], 0)

\* C40: when shutdown has completed the daemon's socket file and the PID
\* file at its socket path plus `.pid` are gone, and no step removes a PID
\* file other than that one.
C40_OnlyOwn ==
    /\ [](shutdown_event => (~socket_file /\ PidFile(socket_path) \notin pid_files))
    /\ [][(pid_files \ pid_files') \subseteq {PidFile(socket_path)}]_vars

====
